---------------------------- MODULE Spec2Model ----------------------------
(***************************************************************************)
(* Room document engine of the room editor (src/src/contexts/RoomContext   *)
(* .tsx and its callers in src/src/components).                            *)
(*                                                                         *)
(* The provider is a React component.  Every handler runs to completion    *)
(* on one event; it READS the values of the render it was created in (the  *)
(* closure, parameter c below) and WRITES through setState calls, which    *)
(* are applied in call order to the pending state (parameter s below):     *)
(* setX(v) overwrites, setX(prev => f(prev)) reads the pending value.      *)
(* A handler is therefore an operator h(c, s, args) returning the next     *)
(* pending state.  An event that calls one handler is h(St, St, args); an  *)
(* event that calls several passes the same c to each of them.             *)
(*                                                                         *)
(* Room values are compared structurally (JSON content).  The one place    *)
(* where a handler mutates the live Room object before a snapshot of it    *)
(* is taken (removeTile) is modelled by the snapshot it actually gets.     *)
(***************************************************************************)
EXTENDS Integers, Sequences, FiniteSets, TLC

VARIABLES
    room,               \* useState<Room>                       RoomContext.tsx:197
    undoStack,          \* useState<RoomAction[]>               RoomContext.tsx:212
    redoStack,          \* useState<RoomAction[]>               RoomContext.tsx:213
    isUndoRedoAction,   \* useState(false)                      RoomContext.tsx:214
    isPainting,         \* useState(false)                      RoomContext.tsx:660
    paintedTiles,       \* pending batch of the paint session   RoomContext.tsx:661
    initialRoomState,   \* baseline of the paint session        RoomContext.tsx:662
    tileBrush,          \* useState<TileBrush | null>           RoomContext.tsx:208
    selectedLayer,      \* useState<string | null>              RoomContext.tsx:203
    tabs,               \* useState<RoomTab[]>                  RoomContext.tsx:311
    activeTabId,        \* useState<string>                     RoomContext.tsx:312
    storage,            \* localStorage, keys "room_" + name
    savedBrushes,       \* useState<SavedBrush[]>              RoomContext.tsx:209
    customTileSize,     \* useState<number>(16)                Canvas.tsx:18
    steps,              \* events delivered so far, undo/redo/flag reset not counted
    op,                 \* the last event delivered, with its arguments
    obs                 \* history variable: what held before the last event

vars == <<room, undoStack, redoStack, isUndoRedoAction, isPainting, paintedTiles,
          initialRoomState, tileBrush, selectedLayer, tabs, activeTabId, storage,
          savedBrushes, customTileSize, steps, op, obs>>

----------------------------------------------------------------------------
(* Values *)

\* JavaScript undefined / null for the optional string fields.
Undefined == "undefined"

\* number | null of a batched tile entry: <<>> is null, <<i>> is the number i.
None == <<>>
Some(i) == <<i>>

\* A RoomAction: its type tag and its payload (the description is a label only).
Action(type, payload) == [type |-> type, payload |-> payload]

\* `@ref room(${name})`
RefIndex(name) == <<"@ref room(", name, ")">>

Min(S) == CHOOSE m \in S : \A n \in S : m <= n

\* Array.prototype.findIndex, 1-based; 0 when nothing matches (-1 in the source).
FindIndex(seq, P(_)) ==
    LET I == {i \in 1..Len(seq) : P(seq[i])}
    IN  IF I = {} THEN 0 ELSE Min(I)

\* seq.filter((_, i) => i !== k) / seq.splice(k, 1)
RemoveAt(seq, k) ==
    [i \in 1..(Len(seq) - 1) |-> IF i < k THEN seq[i] ELSE seq[i + 1]]

\* seq.slice(0, -1)
ButLast(seq) == IF seq = <<>> THEN <<>> ELSE SubSeq(seq, 1, Len(seq) - 1)

Last(seq) == seq[Len(seq)]

\* seq.map(f)
Map(seq, f(_)) == [i \in 1..Len(seq) |-> f(seq[i])]

defaultRoom ==
    [ instances |-> <<>>,
      layers |-> <<
        [name |-> "TilesForest", depth |-> 0, type |-> "tile", visible |-> TRUE,
         tiles |-> <<>>, texture |-> "tileset_forest"],
        [name |-> "Objects", depth |-> 100, type |-> "object", visible |-> TRUE,
         tiles |-> <<>>, texture |-> Undefined] >>,
      width |-> 800,
      height |-> 600,
      name |-> "New Room",
      index |-> RefIndex("New Room"),
      type |-> Undefined,
      biome |-> Undefined,
      chance |-> 100 ]

\* The state as one record: what a render's closures see, and what the
\* setState calls of one event build up.
St ==
    [ room |-> room, undoStack |-> undoStack, redoStack |-> redoStack,
      isUndoRedoAction |-> isUndoRedoAction, isPainting |-> isPainting,
      paintedTiles |-> paintedTiles, initialRoomState |-> initialRoomState,
      tileBrush |-> tileBrush, selectedLayer |-> selectedLayer,
      tabs |-> tabs, activeTabId |-> activeTabId, storage |-> storage,
      savedBrushes |-> savedBrushes, customTileSize |-> customTileSize ]

\* React commits the pending state of the event.
Commit(s) ==
    /\ room' = s.room
    /\ undoStack' = s.undoStack
    /\ redoStack' = s.redoStack
    /\ isUndoRedoAction' = s.isUndoRedoAction
    /\ isPainting' = s.isPainting
    /\ paintedTiles' = s.paintedTiles
    /\ initialRoomState' = s.initialRoomState
    /\ tileBrush' = s.tileBrush
    /\ selectedLayer' = s.selectedLayer
    /\ tabs' = s.tabs
    /\ activeTabId' = s.activeTabId
    /\ storage' = s.storage
    /\ savedBrushes' = s.savedBrushes
    /\ customTileSize' = s.customTileSize

----------------------------------------------------------------------------
(* History recording *)

\* Fault: the new entry is put under the entries already recorded.
addToHistoryBelowTop(c, s, action) ==
    IF c.isUndoRedoAction THEN s
    ELSE [s EXCEPT !.undoStack = <<action>> \o s.undoStack,
                   !.redoStack = <<>>]

addToHistory(c, s, action) ==
    IF c.isUndoRedoAction THEN s
    ELSE [s EXCEPT !.undoStack = Append(s.undoStack, action),
                   !.redoStack = <<>>]

\* payload: { ...action.payload, previousRoom } : the snapshot taken here
\* replaces any previousRoom the caller put into the payload.
WithPreviousRoom(action, previousRoom) ==
    [action EXCEPT !.payload =
        [f \in (DOMAIN action.payload) \cup {"previousRoom"} |->
            IF f = "previousRoom" THEN previousRoom ELSE action.payload[f]]]

updateRoomWithHistory(c, s, newRoom, action) ==
    LET s1 == IF ~c.isUndoRedoAction
              THEN [addToHistory(c, s, WithPreviousRoom(action, c.room))
                        EXCEPT !.redoStack = <<>>]
              ELSE s
    IN  [s1 EXCEPT !.room = newRoom]


----------------------------------------------------------------------------
(* Mutation commands *)

\* Fault: the name changes and the index stays.
setRoomNameKeepingIndex(c, s, name) ==
    LET newRoom == [c.room EXCEPT !.name = name]
    IN  updateRoomWithHistory(c, s, newRoom,
            Action("RENAME_ROOM", [name |-> name]))

setRoomName(c, s, name) ==
    LET newRoom == [c.room EXCEPT !.name = name, !.index = RefIndex(name)]
    IN  updateRoomWithHistory(c, s, newRoom,
            Action("RENAME_ROOM", [name |-> name]))

\* Fault: any layer that exists takes objects.
canPlaceObjectOnAnyLayer(c, layerName) ==
    FindIndex(c.room.layers, LAMBDA l : l.name = layerName) # 0

canPlaceObjectOnLayer(c, layerName) ==
    LET li == FindIndex(c.room.layers, LAMBDA l : l.name = layerName)
    IN  li # 0 /\ c.room.layers[li].type = "object"

addInstance(c, s, instance) ==
    IF ~canPlaceObjectOnLayer(c, instance.instance_layer_name) THEN s
    ELSE LET newRoom == [c.room EXCEPT !.instances = Append(@, instance)]
         IN  updateRoomWithHistory(c, s, newRoom,
                 Action("ADD_INSTANCE", [instance |-> instance,
                  previousRoom |-> c.room]))

\* index is 1-based here; the caller passes a position of room.instances.
removeInstance(c, s, index) ==
    LET removedInstance == c.room.instances[index]
        newRoom == [c.room EXCEPT !.instances = RemoveAt(@, index)]
    IN  updateRoomWithHistory(c, s, newRoom,
            Action("REMOVE_INSTANCE", [instance |-> removedInstance,
             index |-> index]))

addLayer(c, s, layer) ==
    LET completeLayer ==
            [layer EXCEPT !.type = IF @ = Undefined THEN "tile" ELSE @]
        newRoom == [c.room EXCEPT !.layers = Append(@, completeLayer)]
    IN  updateRoomWithHistory(c, s, newRoom,
            Action("ADD_LAYER", [layer |-> completeLayer]))

\* Fault: the layer goes, its instances stay.
removeLayerKeepingInstances(c, s, name) ==
    LET li == FindIndex(c.room.layers, LAMBDA l : l.name = name)
    IN  IF li = 0 THEN s
        ELSE
          LET newRoom ==
                [c.room EXCEPT
                   !.layers = SelectSeq(@, LAMBDA l : l.name # name)]
              s1 == IF c.selectedLayer = name
                    THEN [s EXCEPT !.selectedLayer = "null"] ELSE s
          IN  updateRoomWithHistory(c, s1, newRoom,
                  Action("REMOVE_LAYER", [layer |-> c.room.layers[li],
                   removedInstances |-> <<>>]))

removeLayer(c, s, name) ==
    LET li == FindIndex(c.room.layers, LAMBDA l : l.name = name)
    IN  IF li = 0 THEN s
        ELSE
          LET layerToRemove == c.room.layers[li]
              newRoom ==
                [c.room EXCEPT
                   !.layers = SelectSeq(@, LAMBDA l : l.name # name),
                   !.instances =
                       SelectSeq(@, LAMBDA i : i.instance_layer_name # name)]
              s1 == IF c.selectedLayer = name
                    THEN [s EXCEPT !.selectedLayer = "null"] ELSE s
          IN  updateRoomWithHistory(c, s1, newRoom,
                  Action("REMOVE_LAYER", [layer |-> layerToRemove,
                   removedInstances |->
                       SelectSeq(c.room.instances,
                                 LAMBDA i : i.instance_layer_name = name)]))

toggleLayerVisibility(c, s, name) ==
    LET newLayers ==
            Map(c.room.layers,
                LAMBDA l : IF l.name = name
                           THEN [l EXCEPT !.visible = ~l.visible] ELSE l)
        li == FindIndex(c.room.layers, LAMBDA l : l.name = name)
        \* !layer?.visible : true when the layer is missing
        newVisibility == IF li = 0 THEN TRUE ELSE ~c.room.layers[li].visible
    IN  updateRoomWithHistory(c, s, [c.room EXCEPT !.layers = newLayers],
            Action("TOGGLE_LAYER_VISIBILITY", [layerName |-> name,
             visible |-> newVisibility]))

updateLayerType(c, s, name, type) ==
    LET newLayers ==
            Map(c.room.layers,
                LAMBDA l : IF l.name = name THEN [l EXCEPT !.type = type] ELSE l)
    IN  updateRoomWithHistory(c, s, [c.room EXCEPT !.layers = newLayers],
            Action("UPDATE_LAYER_TYPE", [layerName |-> name, type |-> type]))

updateLayerTexture(c, s, name, texture) ==
    LET newLayers ==
            Map(c.room.layers,
                LAMBDA l : IF l.name = name
                           THEN [l EXCEPT !.texture = texture] ELSE l)
    IN  updateRoomWithHistory(c, s, [c.room EXCEPT !.layers = newLayers],
            Action("UPDATE_LAYER_TEXTURE", [layerName |-> name,
             texture |-> texture]))

\* Sidebar.handleSaveRename: the only implementation of RenameLayer.  newName
\* is already trimmed; the rename is written with setRoom, not through
\* updateRoomWithHistory.
\* Fault: the instances keep the old layer name.
handleSaveRenameLayersOnly(c, s, oldName, newName) ==
    IF newName = "" \/ newName = oldName THEN s
    ELSE IF FindIndex(c.room.layers, LAMBDA l : l.name = oldName) = 0 THEN s
    ELSE
      LET newLayers ==
              Map(c.room.layers,
                  LAMBDA l : IF l.name = oldName
                             THEN [l EXCEPT !.name = newName] ELSE l)
      IN  [s EXCEPT !.room = [c.room EXCEPT !.layers = newLayers],
                    !.selectedLayer =
                        IF c.selectedLayer = oldName THEN newName ELSE @]

handleSaveRename(c, s, oldName, newName) ==
    IF newName = "" \/ newName = oldName THEN s
    ELSE IF FindIndex(c.room.layers, LAMBDA l : l.name = oldName) = 0 THEN s
    ELSE
      LET newLayers ==
              Map(c.room.layers,
                  LAMBDA l : IF l.name = oldName
                             THEN [l EXCEPT !.name = newName] ELSE l)
          newInstances ==
              Map(c.room.instances,
                  LAMBDA i : IF i.instance_layer_name = oldName
                             THEN [i EXCEPT !.instance_layer_name = newName]
                             ELSE i)
          newRoom == [c.room EXCEPT !.layers = newLayers,
                                    !.instances = newInstances]
      IN  [s EXCEPT !.room = newRoom,
                    !.selectedLayer =
                        IF c.selectedLayer = oldName THEN newName ELSE @]

\* Fault: an occupied cell keeps the tile it has.
addTileKeepingOld(c, s, layerName, x, y, index) ==
    LET li == FindIndex(c.room.layers, LAMBDA l : l.name = layerName)
    IN  IF li = 0 THEN s
        ELSE IF c.room.layers[li].type # "tile" THEN s
        ELSE
          LET tiles == c.room.layers[li].tiles
              existingTileIndex == FindIndex(tiles, LAMBDA t : t.x = x /\ t.y = y)
              newTiles == IF existingTileIndex # 0 THEN tiles
                          ELSE Append(tiles, [x |-> x, y |-> y, index |-> index])
              newRoom == [c.room EXCEPT !.layers[li].tiles = newTiles]
          IN  IF c.isPainting
              THEN [s EXCEPT
                      !.paintedTiles =
                          Append(@, [layerName |-> layerName, x |-> x, y |-> y,
                                     index |-> Some(index)]),
                      !.room = newRoom]
              ELSE updateRoomWithHistory(c, s, newRoom,
                      Action("ADD_TILE", [layerName |-> layerName,
                       x |-> x, y |-> y, index |-> index]))

\* Fault: the tile is pushed without looking for one at the cell.
addTileAlwaysPush(c, s, layerName, x, y, index) ==
    LET li == FindIndex(c.room.layers, LAMBDA l : l.name = layerName)
    IN  IF li = 0 THEN s
        ELSE IF c.room.layers[li].type # "tile" THEN s
        ELSE
          LET newRoom == [c.room EXCEPT !.layers[li].tiles =
                            Append(@, [x |-> x, y |-> y, index |-> index])]
          IN  IF c.isPainting
              THEN [s EXCEPT
                      !.paintedTiles =
                          Append(@, [layerName |-> layerName, x |-> x, y |-> y,
                                     index |-> Some(index)]),
                      !.room = newRoom]
              ELSE updateRoomWithHistory(c, s, newRoom,
                      Action("ADD_TILE", [layerName |-> layerName,
                       x |-> x, y |-> y, index |-> index]))

addTile(c, s, layerName, x, y, index) ==
    LET li == FindIndex(c.room.layers, LAMBDA l : l.name = layerName)
    IN  IF li = 0 THEN s
        ELSE IF c.room.layers[li].type # "tile" THEN s
        ELSE
          LET tiles == c.room.layers[li].tiles
              existingTileIndex == FindIndex(tiles, LAMBDA t : t.x = x /\ t.y = y)
              tile == [x |-> x, y |-> y, index |-> index]
              newTiles == IF existingTileIndex # 0
                          THEN [tiles EXCEPT ![existingTileIndex] = tile]
                          ELSE Append(tiles, tile)
              newRoom == [c.room EXCEPT !.layers[li].tiles = newTiles]
          IN  IF c.isPainting
              THEN [s EXCEPT
                      !.paintedTiles =
                          Append(@, [layerName |-> layerName, x |-> x, y |-> y,
                                     index |-> Some(index)]),
                      !.room = newRoom]
              ELSE updateRoomWithHistory(c, s, newRoom,
                      Action("ADD_TILE", [layerName |-> layerName,
                       x |-> x, y |-> y, index |-> index]))

startPainting(c, s) ==
    [s EXCEPT !.isPainting = TRUE,
              !.paintedTiles = <<>>,
              !.initialRoomState = c.room]

ResetPainting(s) ==
    [s EXCEPT !.isPainting = FALSE,
              !.paintedTiles = <<>>,
              !.initialRoomState = [undefined |-> TRUE]]

\* Fault: the session always records a batch, even an empty one.
endPaintingAlwaysRecording(c, s) ==
    IF ~c.isPainting THEN ResetPainting(s)
    ELSE ResetPainting(
            addToHistory(c, s,
                Action("BATCH_ADD_TILES", [batchedTiles |-> c.paintedTiles,
                 previousRoom |-> c.initialRoomState])))

endPainting(c, s) ==
    IF ~c.isPainting \/ c.paintedTiles = <<>> THEN ResetPainting(s)
    ELSE ResetPainting(
            addToHistory(c, s,
                Action("BATCH_ADD_TILES", [batchedTiles |-> c.paintedTiles,
                 previousRoom |-> c.initialRoomState])))

\* Both branches run inside setRoom(prevRoom => ...): prevRoom is the pending
\* Room.  Outside a paint session the tile is spliced out of prevRoom's own
\* tiles array (newRoom = { ...prevRoom } shares its layers), and prevRoom is
\* the object the closure calls `room`; updateRoomWithHistory then snapshots
\* `room`, i.e. the Room with the tile already gone, and that snapshot
\* replaces the previousRoom of the payload.
removeTile(c, s, layerName, x, y) ==
    LET prevRoom == s.room
        li == FindIndex(prevRoom.layers, LAMBDA l : l.name = layerName)
    IN  IF c.isPainting
        THEN
          LET s1 == [s EXCEPT !.paintedTiles =
                        Append(@, [layerName |-> layerName, x |-> x, y |-> y,
                                   index |-> None])]
          IN  IF li = 0 THEN s1
              ELSE IF prevRoom.layers[li].type # "tile" THEN s1
              ELSE [s1 EXCEPT !.room.layers[li].tiles =
                        SelectSeq(@, LAMBDA t : ~(t.x = x /\ t.y = y))]
        ELSE
          IF li = 0 THEN s
          ELSE IF prevRoom.layers[li].type # "tile" THEN s
          ELSE
            LET tileIndex == FindIndex(prevRoom.layers[li].tiles,
                                       LAMBDA t : t.x = x /\ t.y = y)
            IN  IF tileIndex = 0 THEN s
                ELSE
                  LET newRoom == [prevRoom EXCEPT !.layers[li].tiles =
                                      RemoveAt(@, tileIndex)]
                      mutated == [c EXCEPT !.room = newRoom]
                  IN  updateRoomWithHistory(mutated, s, newRoom,
                          Action("REMOVE_TILE", [layerName |-> layerName,
                           x |-> x, y |-> y, previousRoom |-> prevRoom]))

InBounds(t, width, height) ==
    t.x < width /\ t.y < height /\ t.x >= 0 /\ t.y >= 0

\* The part of updateRoomSize that computes the resized Room.
ResizedRoom(r, width, height) ==
    [r EXCEPT
       !.width = width,
       !.height = height,
       !.layers =
           Map(@, LAMBDA l :
                  IF l.type = "tile"
                  THEN [l EXCEPT !.tiles =
                           SelectSeq(@, LAMBDA t : InBounds(t, width, height))]
                  ELSE l),
       !.instances = SelectSeq(@, LAMBDA i : InBounds(i, width, height))]

updateRoomSize(c, s, width, height) ==
    LET newRoom == ResizedRoom(c.room, width, height)
        action == Action("UPDATE_ROOM_SIZE", [width |-> width,
                   height |-> height, previousWidth |-> c.room.width,
                   previousHeight |-> c.room.height, previousRoom |-> c.room])
        s1 == [s EXCEPT !.room = newRoom]
        s2 == IF c.activeTabId # 0
              THEN [s1 EXCEPT !.tabs =
                      Map(@, LAMBDA tab :
                             IF tab.id = c.activeTabId
                             THEN [tab EXCEPT !.room = newRoom,
                                              !.undoStack = Append(@, action)]
                             ELSE tab)]
              ELSE s1
        s3 == addToHistory(c, s2, action)
    IN  [s3 EXCEPT !.storage[newRoom.name] = newRoom]

updateRoomType(c, s, type) ==
    updateRoomWithHistory(c, s, [c.room EXCEPT !.type = type],
        Action("UPDATE_ROOM_TYPE", [previousType |-> c.room.type]))

updateRoomBiome(c, s, biome) ==
    updateRoomWithHistory(c, s, [c.room EXCEPT !.biome = biome],
        Action("UPDATE_ROOM_BIOME", [previousBiome |-> c.room.biome]))

updateRoomChance(c, s, chance) ==
    [s EXCEPT !.room.chance = chance]

----------------------------------------------------------------------------
(* Tabs.  A tab id is a number; 0 stands for the empty string.  The view    *)
(* fields of a tab (scale, panOffset, selectedTool) are not part of the     *)
(* document state and are left out.                                         *)

\* The setTabs(prevTabs => prevTabs.map(...)) call that stores the values
\* of the render into the slot of the active tab.
SaveActiveTab(c, s) ==
    IF c.activeTabId = 0 THEN s
    ELSE [s EXCEPT !.tabs =
            Map(@, LAMBDA tab :
                   IF tab.id = c.activeTabId
                   THEN [tab EXCEPT !.room = c.room,
                                    !.undoStack = c.undoStack,
                                    !.redoStack = c.redoStack,
                                    !.selectedLayer = c.selectedLayer]
                   ELSE tab)]

\* Fault: the slot of the tab that is left is not written.
switchToTabWithoutSaving(c, s, tabId) ==
    IF tabId = c.activeTabId THEN s
    ELSE
      LET ti == FindIndex(c.tabs, LAMBDA tab : tab.id = tabId)
      IN  IF ti = 0 THEN s
          ELSE [s EXCEPT !.activeTabId = tabId,
                         !.room = c.tabs[ti].room,
                         !.undoStack = c.tabs[ti].undoStack,
                         !.redoStack = c.tabs[ti].redoStack,
                         !.selectedLayer = c.tabs[ti].selectedLayer]

switchToTab(c, s, tabId) ==
    IF tabId = c.activeTabId THEN s
    ELSE
      LET s1 == SaveActiveTab(c, s)
          ti == FindIndex(c.tabs, LAMBDA tab : tab.id = tabId)
      IN  IF ti = 0 THEN s1
          ELSE [s1 EXCEPT !.activeTabId = tabId,
                          !.room = c.tabs[ti].room,
                          !.undoStack = c.tabs[ti].undoStack,
                          !.redoStack = c.tabs[ti].redoStack,
                          !.selectedLayer = c.tabs[ti].selectedLayer]

\* The two layers addTab gives a Room that has none.
DefaultLayers ==
    << [name |-> "TilesForest", depth |-> 0, type |-> "tile", visible |-> TRUE,
        tiles |-> <<>>, texture |-> "tileset_forest"],
       [name |-> "Objects", depth |-> 100, type |-> "object", visible |-> TRUE,
        tiles |-> <<>>, texture |-> Undefined] >>

\* newTabId is `tab-${Date.now()}`, passed in as a number.
addTab(c, s, newRoom, newTabId) ==
    LET existing == FindIndex(c.tabs, LAMBDA tab : tab.room.name = newRoom.name)
    IN  IF existing # 0 THEN switchToTab(c, s, c.tabs[existing].id)
        ELSE
          LET roomWithLayers ==
                  IF Len(newRoom.layers) > 0 THEN newRoom
                  ELSE [newRoom EXCEPT !.layers = DefaultLayers]
              newTab == [id |-> newTabId, room |-> roomWithLayers,
                         undoStack |-> <<>>, redoStack |-> <<>>,
                         selectedLayer |-> "null"]
              s1 == SaveActiveTab(c, s)
          IN  [s1 EXCEPT !.tabs = Append(@, newTab),
                         !.activeTabId = newTabId,
                         !.room = roomWithLayers,
                         !.undoStack = <<>>,
                         !.redoStack = <<>>,
                         !.selectedLayer = "null"]

\* Fault: the last tab can be closed too.
closeTabEvenTheLast(c, s, tabId) ==
    LET s1 == IF tabId = c.activeTabId /\ Len(c.tabs) > 1
              THEN LET tabIndex == FindIndex(c.tabs, LAMBDA tab : tab.id = tabId)
                       newIndex == IF tabIndex = 1 THEN 2 ELSE tabIndex - 1
                   IN  switchToTab(c, s, c.tabs[newIndex].id)
              ELSE s
    IN  [s1 EXCEPT !.tabs = SelectSeq(@, LAMBDA tab : tab.id # tabId)]

closeTab(c, s, tabId) ==
    IF Len(c.tabs) <= 1 THEN s
    ELSE
      LET s1 == IF tabId = c.activeTabId
                THEN LET tabIndex == FindIndex(c.tabs, LAMBDA tab : tab.id = tabId)
                         newIndex == IF tabIndex = 1 THEN 2 ELSE tabIndex - 1
                     IN  switchToTab(c, s, c.tabs[newIndex].id)
                ELSE s
      IN  [s1 EXCEPT !.tabs = SelectSeq(@, LAMBDA tab : tab.id # tabId)]

\* The chance of a Room that has no chance field (undefined), kept apart
\* from every number a chance can be.
NoChance == -1

\* The Room the "new room" dialog of the header hands to addTab (it has no
\* chance field).
HeaderNewRoom(name) ==
    [ instances |-> <<>>,
      layers |-> DefaultLayers,
      width |-> 800,
      height |-> 600,
      name |-> name,
      index |-> RefIndex(name),
      type |-> Undefined,
      biome |-> Undefined,
      chance |-> NoChance ]

\* saveRoom: the document is written under "room_" + name (the list of
\* recent rooms and the alert are not part of the document state).
saveRoom(c, s) ==
    IF c.room.name = "" THEN s
    ELSE [s EXCEPT !.storage[c.room.name] = c.room]

----------------------------------------------------------------------------
(* Brush placement *)

\* const tileSize = 16 in applyTileBrush
tileSize == 16

NullBrush == [null |-> TRUE]
NoRoom == [undefined |-> TRUE]

\* tileBrush.tiles.forEach(...) of applyTileBrush, from brush tile k on.
\* acc.tiles is targetLayer.tiles, acc.batched the entries collected so far.
RECURSIVE BrushLoop(_, _, _, _, _, _, _, _)
BrushLoop(brushTiles, k, layerName, x, y, width, height, acc) ==
    IF k > Len(brushTiles) THEN acc
    ELSE
      LET brushTile == brushTiles[k]
          tileX == x + brushTile.x * tileSize
          tileY == y + brushTile.y * tileSize
      IN  IF tileX < 0 \/ tileY < 0 \/ tileX >= width \/ tileY >= height
          THEN BrushLoop(brushTiles, k + 1, layerName, x, y, width, height, acc)
          ELSE
            LET existingTileIndex ==
                    FindIndex(acc.tiles, LAMBDA t : t.x = tileX /\ t.y = tileY)
                entry == [layerName |-> layerName, x |-> tileX, y |-> tileY,
                          index |-> IF existingTileIndex # 0
                                    THEN Some(acc.tiles[existingTileIndex].index)
                                    ELSE None]
                kept == IF existingTileIndex # 0
                        THEN RemoveAt(acc.tiles, existingTileIndex)
                        ELSE acc.tiles
                next == [tiles |-> Append(kept, [x |-> tileX, y |-> tileY,
                                                  index |-> brushTile.index]),
                         batched |-> Append(acc.batched, entry)]
            IN  BrushLoop(brushTiles, k + 1, layerName, x, y, width, height, next)

applyTileBrush(c, s, layerName, x, y) ==
    IF c.tileBrush = NullBrush THEN s
    ELSE
      LET layerIndex == FindIndex(c.room.layers, LAMBDA l : l.name = layerName)
      IN  IF layerIndex = 0 THEN s
          ELSE IF c.room.layers[layerIndex].type # "tile" THEN s
          ELSE
            LET done == BrushLoop(c.tileBrush.tiles, 1, layerName, x, y,
                                  c.room.width, c.room.height,
                                  [tiles |-> c.room.layers[layerIndex].tiles,
                                   batched |-> <<>>])
                newRoom == [c.room EXCEPT !.layers[layerIndex].tiles = done.tiles]
            IN  IF c.isPainting
                THEN [s EXCEPT !.paintedTiles = @ \o done.batched,
                               !.room = newRoom]
                ELSE [addToHistory(c, s,
                          Action("BATCH_ADD_TILES",
                                 [batchedTiles |-> done.batched,
                                  previousRoom |-> c.room]))
                        EXCEPT !.room = newRoom]

----------------------------------------------------------------------------
(* Brush library.  An entry of the library is kept as the JSON value it is:  *)
(* every field carries the type that typeof reports for it.                  *)

Str(s) == [type |-> "string", value |-> s]
Num(n) == [type |-> "number", value |-> n]
Arr(a) == [type |-> "array", value |-> a]
Absent == [type |-> "undefined"]

\* The brush the mounting effect puts in the empty library.
exampleBrush ==
    [type |-> "object", id |-> Str("example_brush_1"),
     name |-> Str("Example 1x1 Brush"),
     tiles |-> Arr(<< [x |-> 0, y |-> 0, index |-> 0] >>),
     width |-> Num(1), height |-> Num(1), texture |-> Str("default"),
     offsetX |-> Num(0), offsetY |-> Num(0)]

\* The predicate of parsedBrushes.filter(...)
IsValidBrush(brush) ==
    /\ brush.type # "null"
    /\ brush.id.type = "string"
    /\ brush.name.type = "string"
    /\ brush.tiles.type = "array"
    /\ brush.width.type = "number"
    /\ brush.height.type = "number"
    /\ brush.texture.type = "string"

\* What JSON.parse makes of the text: it throws, or gives a value that is an
\* array of items or is not an array.
ParseError == [parsed |-> FALSE]
NotAnArray == [parsed |-> TRUE, array |-> FALSE]
ArrayOf(items) == [parsed |-> TRUE, array |-> TRUE, items |-> items]

\* Fault: one malformed entry rejects the whole import.
importBrushLibraryAllOrNothing(c, s, data) ==
    IF ~data.parsed THEN [state |-> s, result |-> FALSE]
    ELSE IF ~data.array THEN [state |-> s, result |-> FALSE]
    ELSE
      LET validBrushes == SelectSeq(data.items, IsValidBrush)
      IN  IF Len(validBrushes) > 0 /\ Len(validBrushes) = Len(data.items)
          THEN [state |-> [s EXCEPT !.savedBrushes = validBrushes],
                result |-> TRUE]
          ELSE [state |-> s, result |-> FALSE]

\* Fault: an import without a valid entry empties the library.
importBrushLibraryClearing(c, s, data) ==
    IF ~data.parsed THEN [state |-> s, result |-> FALSE]
    ELSE IF ~data.array THEN [state |-> s, result |-> FALSE]
    ELSE
      LET validBrushes == SelectSeq(data.items, IsValidBrush)
      IN  [state |-> [s EXCEPT !.savedBrushes = validBrushes],
           result |-> Len(validBrushes) > 0]

\* importBrushLibrary: the next state and the value returned.
importBrushLibrary(c, s, data) ==
    IF ~data.parsed THEN [state |-> s, result |-> FALSE]
    ELSE IF ~data.array THEN [state |-> s, result |-> FALSE]
    ELSE
      LET validBrushes == SelectSeq(data.items, IsValidBrush)
      IN  IF Len(validBrushes) > 0
          THEN [state |-> [s EXCEPT !.savedBrushes = validBrushes],
                result |-> TRUE]
          ELSE [state |-> s, result |-> FALSE]

----------------------------------------------------------------------------
(* Undo / redo *)

Has(payload, field) == field \in DOMAIN payload

\* if (lastUndoAction.payload.previousRoom)
HasPreviousRoom(action) ==
    /\ Has(action.payload, "previousRoom")
    /\ action.payload.previousRoom # NoRoom

\* The switch of undo, reached only by an entry without previousRoom.  The
\* room it yields; the PLACE_PREFAB and APPLY_TILE_BRUSH cases belong to entry
\* types that nothing records.
UndoSwitch(r, action) ==
    LET p == action.payload
    IN  CASE action.type = "ADD_INSTANCE" ->
               LET k == FindIndex(r.instances,
                          LAMBDA i : /\ i.x = p.instance.x
                                     /\ i.y = p.instance.y
                                     /\ i.obj_name = p.instance.obj_name)
               IN  IF k # 0 THEN [r EXCEPT !.instances = RemoveAt(@, k)] ELSE r
          [] action.type = "REMOVE_INSTANCE" ->
               LET li == FindIndex(r.layers,
                           LAMBDA l : l.name = p.instance.instance_layer_name)
               IN  IF li # 0 /\ r.layers[li].type = "object"
                   THEN [r EXCEPT !.instances = Append(@, p.instance)] ELSE r
          [] action.type = "ADD_LAYER" ->
               [r EXCEPT
                  !.layers = SelectSeq(@, LAMBDA l : l.name # p.layer.name),
                  !.instances = SelectSeq(@,
                      LAMBDA i : i.instance_layer_name # p.layer.name)]
          [] action.type = "REMOVE_LAYER" ->
               [r EXCEPT !.layers = Append(@, p.layer),
                         !.instances = @ \o p.removedInstances]
          [] action.type = "ADD_TILE" ->
               LET li == FindIndex(r.layers, LAMBDA l : l.name = p.layerName)
               IN  IF li # 0
                   THEN [r EXCEPT !.layers[li].tiles =
                           SelectSeq(@, LAMBDA t : ~(t.x = p.x /\ t.y = p.y))]
                   ELSE r
          [] action.type = "UPDATE_ROOM_TYPE" -> [r EXCEPT !.type = p.previousType]
          [] action.type = "UPDATE_ROOM_BIOME" -> [r EXCEPT !.biome = p.previousBiome]
          [] OTHER -> r

\* The Room that undo sets for the entry on top of the undo stack.
UndoRoom(r, action) ==
    IF HasPreviousRoom(action) THEN action.payload.previousRoom
    ELSE UndoSwitch(r, action)

\* Fault: the replaying flag is raised before the stack is looked at.
undoRaisingFlagFirst(c, s) ==
    IF c.undoStack = <<>> THEN [s EXCEPT !.isUndoRedoAction = TRUE]
    ELSE
      LET lastUndoAction == Last(c.undoStack)
      IN  [s EXCEPT !.isUndoRedoAction = TRUE,
                    !.room = UndoRoom(c.room, lastUndoAction),
                    !.redoStack = Append(@, lastUndoAction),
                    !.undoStack = ButLast(@)]

undo(c, s) ==
    IF c.undoStack = <<>> THEN s
    ELSE
      LET lastUndoAction == Last(c.undoStack)
      IN  [s EXCEPT !.isUndoRedoAction = TRUE,
                    !.room = UndoRoom(c.room, lastUndoAction),
                    !.redoStack = Append(@, lastUndoAction),
                    !.undoStack = ButLast(@)]

\* batchedTiles.forEach(...) of redo, from entry k on.
RECURSIVE RedoBatch(_, _, _)
RedoBatch(batchedTiles, k, r) ==
    IF k > Len(batchedTiles) THEN r
    ELSE
      LET e == batchedTiles[k]
          layerIndex == FindIndex(r.layers, LAMBDA l : l.name = e.layerName)
      IN  IF layerIndex = 0 THEN RedoBatch(batchedTiles, k + 1, r)
          ELSE
            LET kept == SelectSeq(r.layers[layerIndex].tiles,
                                  LAMBDA t : ~(t.x = e.x /\ t.y = e.y))
                tiles == IF e.index # None
                         THEN Append(kept, [x |-> e.x, y |-> e.y,
                                            index |-> e.index[1]])
                         ELSE kept
            IN  RedoBatch(batchedTiles, k + 1,
                          [r EXCEPT !.layers[layerIndex].tiles = tiles])

\* The Room that redo sets for the entry on top of the redo stack (the
\* switch of redo; an entry type without a case leaves the Room as it is).
RedoRoom(r, action) ==
    LET p == action.payload
    IN  CASE action.type = "ADD_INSTANCE" ->
               LET li == FindIndex(r.layers,
                           LAMBDA l : l.name = p.instance.instance_layer_name)
               IN  IF li # 0 /\ r.layers[li].type = "object"
                   THEN [r EXCEPT !.instances = Append(@, p.instance)] ELSE r
          [] action.type = "REMOVE_INSTANCE" ->
               LET k == FindIndex(r.instances,
                          LAMBDA i : /\ i.x = p.instance.x
                                     /\ i.y = p.instance.y
                                     /\ i.obj_name = p.instance.obj_name)
               IN  IF k # 0 THEN [r EXCEPT !.instances = RemoveAt(@, k)] ELSE r
          [] action.type = "ADD_LAYER" ->
               [r EXCEPT !.layers = Append(@, p.layer)]
          [] action.type = "REMOVE_LAYER" ->
               [r EXCEPT
                  !.layers = SelectSeq(@, LAMBDA l : l.name # p.layer.name),
                  !.instances = SelectSeq(@,
                      LAMBDA i : i.instance_layer_name # p.layer.name)]
          [] action.type = "ADD_TILE" ->
               \* reads payload.tileIndex; addTile records payload.index
               IF Has(p, "tileIndex")
               THEN LET li == FindIndex(r.layers, LAMBDA l : l.name = p.layerName)
                    IN  IF li # 0
                        THEN [r EXCEPT !.layers[li].tiles =
                               Append(SelectSeq(@,
                                        LAMBDA t : ~(t.x = p.x /\ t.y = p.y)),
                                      [x |-> p.x, y |-> p.y,
                                       index |-> p.tileIndex])]
                        ELSE r
               ELSE r
          [] action.type = "REMOVE_TILE" ->
               \* requires payload.removedTile; removeTile records none
               IF Has(p, "removedTile")
               THEN LET li == FindIndex(r.layers, LAMBDA l : l.name = p.layerName)
                    IN  IF li # 0
                        THEN [r EXCEPT !.layers[li].tiles =
                               SelectSeq(@, LAMBDA t : ~(t.x = p.x /\ t.y = p.y))]
                        ELSE r
               ELSE r
          [] action.type = "UPDATE_ROOM_TYPE" ->
               IF HasPreviousRoom(action) THEN p.previousRoom
               ELSE [r EXCEPT !.type = Undefined]
          [] action.type = "UPDATE_ROOM_BIOME" ->
               IF HasPreviousRoom(action) THEN p.previousRoom
               ELSE [r EXCEPT !.biome = Undefined]
          [] action.type = "BATCH_ADD_TILES" ->
               IF Has(p, "batchedTiles")
               THEN RedoBatch(p.batchedTiles, 1, r) ELSE r
          [] OTHER -> r

\* Fault: redo drops the entries left on the redo stack.
redoDroppingRest(c, s) ==
    IF c.redoStack = <<>> THEN s
    ELSE
      LET lastRedoAction == Last(c.redoStack)
      IN  [s EXCEPT !.isUndoRedoAction = TRUE,
                    !.room = RedoRoom(c.room, lastRedoAction),
                    !.redoStack = <<>>,
                    !.undoStack = Append(@, lastRedoAction)]

redo(c, s) ==
    IF c.redoStack = <<>> THEN s
    ELSE
      LET lastRedoAction == Last(c.redoStack)
      IN  [s EXCEPT !.isUndoRedoAction = TRUE,
                    !.room = RedoRoom(c.room, lastRedoAction),
                    !.redoStack = ButLast(@),
                    !.undoStack = Append(@, lastRedoAction)]

\* setTimeout(() => setIsUndoRedoAction(false), 0), queued by undo and redo.
resetUndoRedoFlag(c, s) == [s EXCEPT !.isUndoRedoAction = FALSE]

----------------------------------------------------------------------------
(* Canvas: the pointer handlers that drive a paint stroke *)

\* Math.floor(v / tileSize) * tileSize
Snap(v) == (v \div customTileSize) * customTileSize

\* Canvas.placeTile; lastTilePosition (null when a stroke starts) is left out.
\* Fault: the brush is anchored at the raw cursor position, not at its cell.
placeTileUnsnapped(c, s, x, y, selectedTileIndex) ==
    IF c.selectedLayer = "null" THEN s
    ELSE
      LET li == FindIndex(c.room.layers, LAMBDA l : l.name = c.selectedLayer)
      IN  IF li = 0 THEN s
          ELSE IF c.room.layers[li].type # "tile" THEN s
          ELSE IF c.tileBrush # NullBrush
          THEN applyTileBrush(c, s, c.selectedLayer,
                              x - c.tileBrush.offsetX * customTileSize,
                              y - c.tileBrush.offsetY * customTileSize)
          ELSE IF Snap(x) < 0 \/ Snap(y) < 0
                  \/ Snap(x) >= c.room.width \/ Snap(y) >= c.room.height
          THEN s
          ELSE addTile(c, s, c.selectedLayer, Snap(x), Snap(y), selectedTileIndex)

placeTile(c, s, x, y, selectedTileIndex) ==
    IF c.selectedLayer = "null" THEN s
    ELSE
      LET li == FindIndex(c.room.layers, LAMBDA l : l.name = c.selectedLayer)
      IN  IF li = 0 THEN s
          ELSE IF c.room.layers[li].type # "tile" THEN s
          ELSE IF c.tileBrush # NullBrush
          THEN applyTileBrush(c, s, c.selectedLayer,
                              Snap(x) - c.tileBrush.offsetX * customTileSize,
                              Snap(y) - c.tileBrush.offsetY * customTileSize)
          ELSE IF Snap(x) < 0 \/ Snap(y) < 0
                  \/ Snap(x) >= c.room.width \/ Snap(y) >= c.room.height
          THEN s
          ELSE addTile(c, s, c.selectedLayer, Snap(x), Snap(y), selectedTileIndex)

\* Canvas.handleMouseDown, left button, place tool, no object selected:
\* startPainting() and the first placement run in the same event, so the
\* placement still sees the isPainting of the render before the press.
handleMouseDown(c, s, x, y, selectedTileIndex) ==
    LET s1 == startPainting(c, s)
    IN  IF c.selectedLayer = "null" THEN s1
        ELSE placeTile(c, s1, x, y, selectedTileIndex)

\* Math.ceil(v / customTileSize) for v >= 0
CeilTiles(v) == (v + customTileSize - 1) \div customTileSize

\* tile.x >= x && tile.x < x + width && tile.y >= y && tile.y < y + height
InSelection(tile, area) ==
    /\ tile.x >= area.x /\ tile.x < area.x + area.width
    /\ tile.y >= area.y /\ tile.y < area.y + area.height

\* Canvas.getTilesInSelection: the filter also marks every tile of the
\* layer, in place, as selected or not.
MarkSelection(tiles, area) ==
    [k \in 1..Len(tiles) |->
        [x |-> tiles[k].x, y |-> tiles[k].y, index |-> tiles[k].index,
         selected |-> InSelection(tiles[k], area)]]

\* Canvas.copySelectionToBrush with selection rectangle area.  (tile.x - minX)
\* / tileSize is exact: the tiles of the menus lie on the grid.
copySelectionToBrush(c, s, area) ==
    IF c.selectedLayer = "null" THEN s
    ELSE
      LET li == FindIndex(c.room.layers, LAMBDA l : l.name = c.selectedLayer)
      IN  IF li = 0 THEN s
          ELSE IF c.room.layers[li].type # "tile"
                  \/ c.room.layers[li].texture \in {Undefined, ""}
          THEN s
          ELSE
            LET marked == MarkSelection(c.room.layers[li].tiles, area)
                tilesInSelection == SelectSeq(marked, LAMBDA t : t.selected)
                s1 == [s EXCEPT !.room.layers[li].tiles = marked]
            IN  IF tilesInSelection = <<>> THEN s1
                ELSE
                  LET minX == Min({tilesInSelection[k].x :
                                      k \in 1..Len(tilesInSelection)})
                      minY == Min({tilesInSelection[k].y :
                                      k \in 1..Len(tilesInSelection)})
                      widthInTiles == CeilTiles(area.width)
                      heightInTiles == CeilTiles(area.height)
                      normalizedTiles ==
                          [k \in 1..Len(tilesInSelection) |->
                              [x |-> (tilesInSelection[k].x - minX)
                                        \div customTileSize,
                               y |-> (tilesInSelection[k].y - minY)
                                        \div customTileSize,
                               index |-> tilesInSelection[k].index]]
                  IN  [s1 EXCEPT !.tileBrush =
                          [tiles |-> normalizedTiles,
                           width |-> widthInTiles,
                           height |-> heightInTiles,
                           texture |-> c.room.layers[li].texture,
                           offsetX |-> widthInTiles \div 2,
                           offsetY |-> heightInTiles \div 2]]

\* Canvas.handleKeyDown, Ctrl+X with selection rectangle area: the tiles of
\* the selection become the brush and leave the layer, under one history
\* entry.  The brush coordinates are taken from the corner of the rectangle.
handleKeyDownCut(c, s, area) ==
    IF c.selectedLayer = "null" THEN s
    ELSE
      LET li == FindIndex(c.room.layers, LAMBDA l : l.name = c.selectedLayer)
      IN  IF li = 0 THEN s
          ELSE IF c.room.layers[li].type # "tile" THEN s
          ELSE
            LET layer == c.room.layers[li]
                marked == MarkSelection(layer.tiles, area)
                tilesInSelection == SelectSeq(marked, LAMBDA t : t.selected)
                previousRoom == [c.room EXCEPT !.layers[li].tiles = marked]
                s1 == [s EXCEPT !.room.layers[li].tiles = marked]
            IN  IF tilesInSelection = <<>> THEN s1
                ELSE
                  LET minX == area.x
                      minY == area.y
                      normalizedTiles ==
                          [k \in 1..Len(tilesInSelection) |->
                              [x |-> (tilesInSelection[k].x - minX)
                                        \div customTileSize,
                               y |-> (tilesInSelection[k].y - minY)
                                        \div customTileSize,
                               index |-> tilesInSelection[k].index]]
                      widthInTiles == CeilTiles(area.width)
                      heightInTiles == CeilTiles(area.height)
                      brush == [tiles |-> normalizedTiles,
                                width |-> widthInTiles,
                                height |-> heightInTiles,
                                texture |-> IF layer.texture \in {Undefined, ""}
                                            THEN "default" ELSE layer.texture,
                                offsetX |-> widthInTiles \div 2,
                                offsetY |-> heightInTiles \div 2]
                      newRoom == [previousRoom EXCEPT !.layers[li].tiles =
                                     SelectSeq(@, LAMBDA t : ~t.selected)]
                  IN  addToHistory(c, [s EXCEPT !.tileBrush = brush,
                                                !.room = newRoom],
                          Action("BATCH_REMOVE_TILES",
                                 [layerName |-> c.selectedLayer,
                                  tiles |-> tilesInSelection,
                                  previousRoom |-> previousRoom]))

Max(S) == CHOOSE m \in S : \A n \in S : m >= n

\* RoomContext.copyTilesToBrush: width, height and the hot spot are worked out
\* again from the tiles, taken to be in pixels (tile.x / tileSize); the tiles
\* themselves go into the brush as they were passed.
copyTilesToBrush(c, s, tiles, width, height, texture, offsetX, offsetY) ==
    IF tiles = <<>> THEN s
    ELSE
      LET tileXCoords == { tiles[k].x \div tileSize : k \in 1..Len(tiles) }
          tileYCoords == { tiles[k].y \div tileSize : k \in 1..Len(tiles) }
          actualWidth == Max(tileXCoords) - Min(tileXCoords) + 1
          actualHeight == Max(tileYCoords) - Min(tileYCoords) + 1
      IN  [s EXCEPT !.tileBrush =
              [tiles |-> tiles, width |-> actualWidth, height |-> actualHeight,
               texture |-> texture,
               offsetX |-> actualWidth \div 2,
               offsetY |-> actualHeight \div 2]]

----------------------------------------------------------------------------
(* Bounds and input menus *)

\* Events other than undo, redo and the flag reset that one run delivers.
MaxSteps == 2
MaxTileSteps == 3
MaxPaintSteps == 4
MaxResizeSteps == 3

MaxBrushSteps == 7
MaxTabSteps == 4
MaxSwitchSteps == 4
MaxEntries == 3
MaxLayerSteps == 4
MaxPressSteps == 2

RoomNames == {"New Room", "Cave"}
Textures == {"tileset_cave"}
TileIndices == {3, 7}
Sizes == {<<16, 600>>, <<800, 16>>}
CursorXs == {5, 20}

NewLayer(name, type) ==
    [name |-> name, depth |-> 300, type |-> type, visible |-> TRUE,
     tiles |-> <<>>, texture |-> ""]

Instance(layerName, x, y) ==
    [instance_layer_name |-> layerName, obj_name |-> "oTree", x |-> x, y |-> y]

\* A 2 x 1 stamp in grid units with its hot-spot on the right cell.
Brushes ==
    { [tiles |-> << [x |-> 0, y |-> 0, index |-> 5],
                    [x |-> 1, y |-> 0, index |-> 6] >>,
       width |-> 2, height |-> 1, texture |-> "tileset_forest",
       offsetX |-> 1, offsetY |-> 0] }

----------------------------------------------------------------------------
(* Initial state and events *)

NoSession == [tab |-> 0, baseline |-> NoRoom]

IdleStroke ==
    [phase |-> "idle", undoLen |-> 0, adds |-> 0, baseline |-> NoRoom,
     replay |-> FALSE]

\* The provider after mounting: the initial values of its state and the
\* effects that run once (default tab, example brush).
Mounted ==
    /\ room = defaultRoom
    /\ undoStack = <<>>
    /\ redoStack = <<>>
    /\ isUndoRedoAction = FALSE
    /\ isPainting = FALSE
    /\ paintedTiles = <<>>
    /\ initialRoomState = NoRoom
    /\ tileBrush = NullBrush
    /\ selectedLayer = "null"
    /\ tabs = << [id |-> 1, room |-> defaultRoom,
                  undoStack |-> <<>>, redoStack |-> <<>>,
                  selectedLayer |-> "null"] >>
    /\ activeTabId = 1
    /\ storage = [n \in RoomNames |-> NoRoom]
    /\ savedBrushes = << exampleBrush >>
    /\ customTileSize = 16

Unobserved ==
    /\ steps = 0
    /\ obs = [prevOp |-> <<"Init">>, before |-> NoRoom, undoLen |-> 0,
              redoLen |-> 0, replay |-> FALSE, script |-> "commands",
              stroke |-> IdleStroke, session |-> NoSession]

Init == Mounted /\ Unobserved /\ op = <<"Init">>

IsTileLayer(r, name) ==
    LET li == FindIndex(r.layers, LAMBDA l : l.name = name)
    IN  li # 0 /\ r.layers[li].type = "tile"

\* The press at (x, y) reaches addTile.
PressAddsTile(x, y) ==
    /\ selectedLayer # "null"
    /\ IsTileLayer(room, selectedLayer)
    /\ tileBrush = NullBrush
    /\ Snap(x) >= 0 /\ Snap(y) >= 0
    /\ Snap(x) < room.width /\ Snap(y) < room.height

\* The stroke the last events form: a session start, then AddTile calls on
\* a tile layer, then the session end, then an Undo.  Any other event breaks
\* it off.  replay: some event of the stroke ran with isUndoRedoAction set.
StrokeNext(e) ==
    CASE e[1] = "StartPainting" ->
           [phase |-> "active", undoLen |-> Len(undoStack), adds |-> 0,
            baseline |-> room, replay |-> isUndoRedoAction]
      [] e[1] = "MouseDownPlace" ->
           [phase |-> "active", undoLen |-> Len(undoStack),
            adds |-> IF PressAddsTile(e[2], e[3]) THEN 1 ELSE 0,
            baseline |-> room, replay |-> isUndoRedoAction]
      [] e[1] = "AddTile" /\ obs.stroke.phase = "active" ->
           [obs.stroke EXCEPT
              !.adds = IF IsTileLayer(room, e[2]) THEN @ + 1 ELSE @,
              !.replay = @ \/ isUndoRedoAction]
      [] e[1] = "EndPainting" /\ obs.stroke.phase = "active" ->
           [obs.stroke EXCEPT !.phase = "ended",
                              !.replay = @ \/ isUndoRedoAction]
      [] e[1] = "Undo" /\ obs.stroke.phase = "ended" ->
           [obs.stroke EXCEPT !.phase = "undone"]
      [] OTHER -> IdleStroke

\* "commands" while only commands have run, "undoing" once only Undo has
\* followed them, "mixed" after anything else.
ScriptNext(e) ==
    IF e[1] \in {"Redo", "ResetUndoRedoFlag"} THEN "mixed"
    ELSE IF e[1] = "Undo"
    THEN (IF obs.script = "mixed" THEN "mixed" ELSE "undoing")
    ELSE (IF obs.script = "commands" THEN "commands" ELSE "mixed")

\* One event: the handler's pending state is committed.
\* Where the latest paint session was started: the tab that was active and
\* the Room that was live.
SessionNext(e) ==
    IF e[1] \in {"StartPainting", "MouseDownPlace"}
    THEN [tab |-> activeTabId, baseline |-> room]
    ELSE obs.session

Deliver(e, s, cost) ==
    /\ Commit(s)
    /\ steps' = steps + cost
    /\ op' = e
    /\ obs' = [prevOp |-> op, before |-> room, undoLen |-> Len(undoStack),
               redoLen |-> Len(redoStack), replay |-> isUndoRedoAction,
               script |-> ScriptNext(e), stroke |-> StrokeNext(e),
               session |-> SessionNext(e)]

Event(e, s) == Deliver(e, s, 1)

RenameRoom(name) == Event(<<"RenameRoom", name>>, setRoomName(St, St, name))

AddInstance(layerName, x, y) ==
    Event(<<"AddInstance", layerName, x, y>>,
          addInstance(St, St, Instance(layerName, x, y)))

RemoveInstance(index) ==
    /\ index \in 1..Len(room.instances)
    /\ Event(<<"RemoveInstance", index>>, removeInstance(St, St, index))

AddLayer(name, type) ==
    Event(<<"AddLayer", name, type>>, addLayer(St, St, NewLayer(name, type)))

RemoveLayer(name) == Event(<<"RemoveLayer", name>>, removeLayer(St, St, name))

ToggleLayerVisibility(name) ==
    Event(<<"ToggleLayerVisibility", name>>, toggleLayerVisibility(St, St, name))

UpdateLayerType(name, type) ==
    Event(<<"UpdateLayerType", name, type>>, updateLayerType(St, St, name, type))

UpdateLayerTexture(name, texture) ==
    Event(<<"UpdateLayerTexture", name, texture>>,
          updateLayerTexture(St, St, name, texture))

RenameLayer(oldName, newName) ==
    Event(<<"RenameLayer", oldName, newName>>,
          handleSaveRename(St, St, oldName, newName))

AddTile(layerName, x, y, index) ==
    Event(<<"AddTile", layerName, x, y, index>>,
          addTile(St, St, layerName, x, y, index))

RemoveTile(layerName, x, y) ==
    Event(<<"RemoveTile", layerName, x, y>>, removeTile(St, St, layerName, x, y))

ResizeRoom(width, height) ==
    Event(<<"ResizeRoom", width, height>>, updateRoomSize(St, St, width, height))

UpdateRoomType(type) ==
    Event(<<"UpdateRoomType", type>>, updateRoomType(St, St, type))

UpdateRoomBiome(biome) ==
    Event(<<"UpdateRoomBiome", biome>>, updateRoomBiome(St, St, biome))

UpdateRoomChance(chance) ==
    Event(<<"UpdateRoomChance", chance>>, updateRoomChance(St, St, chance))

SaveRoom == Event(<<"SaveRoom">>, saveRoom(St, St))

SetTileBrush(brush) ==
    /\ tileBrush # brush
    /\ Event(<<"SetTileBrush">>, [St EXCEPT !.tileBrush = brush])

ApplyTileBrush(layerName, x, y) ==
    Event(<<"ApplyTileBrush", layerName, x, y>>,
          applyTileBrush(St, St, layerName, x, y))

SelectLayer(name) ==
    /\ selectedLayer # name
    /\ Event(<<"SelectLayer", name>>, [St EXCEPT !.selectedLayer = name])

StartPainting == Event(<<"StartPainting">>, startPainting(St, St))

EndPainting ==
    /\ isPainting
    /\ Event(<<"EndPainting">>, endPainting(St, St))

MouseDownPlace(x, y, index) ==
    Event(<<"MouseDownPlace", x, y, index>>, handleMouseDown(St, St, x, y, index))

Undo ==
    /\ undoStack # <<>>
    /\ Deliver(<<"Undo">>, undo(St, St), 0)

Redo ==
    /\ redoStack # <<>>
    /\ Deliver(<<"Redo">>, redo(St, St), 0)

\* The 0 ms timer of the last undo or redo fires.
ResetUndoRedoFlag ==
    /\ isUndoRedoAction
    /\ Deliver(<<"ResetUndoRedoFlag">>, resetUndoRedoFlag(St, St), 0)

----------------------------------------------------------------------------
(* The whole engine *)

Next ==
    \/ steps < MaxSteps /\ RenameRoom("Cave")
    \/ steps < MaxSteps /\ \E l \in {"TilesForest", "Objects"} : AddInstance(l, 16, 0)
    \/ steps < MaxSteps /\ RemoveInstance(1)
    \/ steps < MaxSteps /\ AddLayer("Extra", "object")
    \/ steps < MaxSteps /\ \E l \in {"TilesForest", "Objects"} : RemoveLayer(l)
    \/ steps < MaxSteps /\ \E l \in {"TilesForest", "Extra"} : ToggleLayerVisibility(l)
    \/ steps < MaxSteps /\ \/ UpdateLayerType("TilesForest", "object")
                           \/ UpdateLayerType("Objects", "tile")
    \/ steps < MaxSteps /\ \E t \in Textures : UpdateLayerTexture("TilesForest", t)
    \/ steps < MaxSteps /\ RenameLayer("TilesForest", "Extra")
    \/ steps < MaxSteps /\ \/ \E x \in {0, 16}, i \in TileIndices :
                                 AddTile("TilesForest", x, 0, i)
                           \/ AddTile("Objects", 0, 0, 3)
    \/ steps < MaxSteps /\ \E x \in {0, 16} : RemoveTile("TilesForest", x, 0)
    \/ steps < MaxSteps /\ \E wh \in Sizes : ResizeRoom(wh[1], wh[2])
    \/ steps < MaxSteps /\ UpdateRoomType("boss")
    \/ steps < MaxSteps /\ UpdateRoomBiome("forest")
    \/ steps < MaxSteps /\ UpdateRoomChance(50)
    \/ steps < MaxSteps /\ \E b \in Brushes : SetTileBrush(b)
    \/ steps < MaxSteps /\ \E x \in {0, 16} : ApplyTileBrush("TilesForest", x, 0)
    \/ steps < MaxSteps /\ \E l \in {"TilesForest", "Objects"} : SelectLayer(l)
    \/ steps < MaxSteps /\ StartPainting
    \/ steps < MaxSteps /\ EndPainting
    \/ steps < MaxSteps /\ \E x \in CursorXs : MouseDownPlace(x, 5, 3)
    \/ Undo
    \/ Redo
    \/ ResetUndoRedoFlag

Spec == Init /\ [][Next]_vars

----------------------------------------------------------------------------
(* Vocabulary of the properties *)

IsCommand(e) == e[1] \notin {"Init", "Undo", "Redo", "ResetUndoRedoFlag"}

Reverse(seq) == [k \in 1..Len(seq) |-> seq[Len(seq) + 1 - k]]

HasLayer(r, name) == FindIndex(r.layers, LAMBDA l : l.name = name) # 0

\* The tiles of layer `name` at cell (x, y), in order.
TilesAt(r, name, x, y) ==
    LET li == FindIndex(r.layers, LAMBDA l : l.name = name)
    IN  IF li = 0 THEN <<>>
        ELSE SelectSeq(r.layers[li].tiles, LAMBDA t : t.x = x /\ t.y = y)

\* The tiles of layer `name` outside cell (x, y), in order.
TilesElsewhere(r, name, x, y) ==
    LET li == FindIndex(r.layers, LAMBDA l : l.name = name)
    IN  IF li = 0 THEN <<>>
        ELSE SelectSeq(r.layers[li].tiles, LAMBDA t : ~(t.x = x /\ t.y = y))

\* The entry types a command may record.
EntryTypes(name) ==
    CASE name = "RenameRoom" -> {"RENAME_ROOM"}
      [] name = "AddInstance" -> {"ADD_INSTANCE"}
      [] name = "RemoveInstance" -> {"REMOVE_INSTANCE"}
      [] name = "AddLayer" -> {"ADD_LAYER"}
      [] name = "RemoveLayer" -> {"REMOVE_LAYER"}
      [] name = "ToggleLayerVisibility" -> {"TOGGLE_LAYER_VISIBILITY"}
      [] name = "UpdateLayerType" -> {"UPDATE_LAYER_TYPE"}
      [] name = "UpdateLayerTexture" -> {"UPDATE_LAYER_TEXTURE"}
      [] name = "AddTile" -> {"ADD_TILE"}
      [] name = "RemoveTile" -> {"REMOVE_TILE"}
      [] name = "ResizeRoom" -> {"UPDATE_ROOM_SIZE"}
      [] name = "UpdateRoomType" -> {"UPDATE_ROOM_TYPE"}
      [] name = "UpdateRoomBiome" -> {"UPDATE_ROOM_BIOME"}
      [] name = "ApplyTileBrush" -> {"BATCH_ADD_TILES"}
      [] name = "EndPainting" -> {"BATCH_ADD_TILES"}
      [] name = "MouseDownPlace" -> {"ADD_TILE", "BATCH_ADD_TILES"}
      [] OTHER -> {}

----------------------------------------------------------------------------
(* History: properties *)

\* C1: after any sequence of commands, with no paint session left open,
\* followed only by Undo until the undo stack is empty, the Room equals the
\* Room before the first command.
C1_FullUndoRestoresRoom ==
    (obs.script # "mixed" /\ ~isPainting /\ undoStack = <<>>)
        => room = defaultRoom

\* C2: an Undo immediately followed by a Redo leaves the Room equal to the
\* Room before the Undo, whatever kind of entry was on top of the undo stack.
C2_UndoThenRedoRestoresRoom ==
    [][(op[1] = "Undo" /\ op'[1] = "Redo") => room' = obs.before]_vars

\* C3: when a command records an entry while no replay is in progress, the
\* entry is pushed on top of the undo stack, the entries below keep their
\* order, and the redo stack is empty afterwards.
C3_RecordPushesAndClearsRedo ==
    [][(IsCommand(op') /\ ~isUndoRedoAction /\ undoStack' # undoStack)
         => /\ Len(undoStack') = Len(undoStack) + 1
            /\ ButLast(undoStack') = undoStack
            /\ Last(undoStack').type \in EntryTypes(op'[1])
            /\ redoStack' = <<>>]_vars

\* A command recorded an entry while the redo stack was not empty.
C3_Witness ==
    /\ IsCommand(op)
    /\ ~obs.replay
    /\ obs.redoLen > 0
    /\ Len(undoStack) = obs.undoLen + 1
    /\ redoStack = <<>>

\* C5: Undo moves exactly the top entry of the undo stack onto the redo stack
\* and Redo moves exactly the top entry of the redo stack back; neither
\* records, so the undo stack followed by the reversed redo stack is the
\* same sequence before and after.
C5_UndoRedoMoveTopEntry ==
    [][/\ op'[1] = "Undo" =>
            /\ undoStack' = ButLast(undoStack)
            /\ redoStack' = Append(redoStack, Last(undoStack))
       /\ op'[1] = "Redo" =>
            /\ redoStack' = ButLast(redoStack)
            /\ undoStack' = Append(undoStack, Last(redoStack))
       /\ op'[1] \in {"Undo", "Redo"} =>
            undoStack' \o Reverse(redoStack') = undoStack \o Reverse(redoStack)
      ]_vars

\* A Redo right after an Undo, with an entry left below the one moved.
C5_Witness ==
    /\ op[1] = "Redo"
    /\ obs.prevOp[1] = "Undo"
    /\ obs.undoLen = 1 /\ obs.redoLen = 1
    /\ Len(undoStack) = 2 /\ redoStack = <<>>

\* An ADD_TILE entry recorded for an in-bounds cell of a tile layer that
\* held no tile there.
PlacedOnEmptyCell(entry) ==
    /\ entry.type = "ADD_TILE"
    /\ LET p == entry.payload
       IN  /\ IsTileLayer(p.previousRoom, p.layerName)
           /\ TilesAt(p.previousRoom, p.layerName, p.x, p.y) = <<>>
           /\ InBounds(p, p.previousRoom.width, p.previousRoom.height)

\* C6: after AddTile(L, x, y, i) outside a paint session on an empty in-bounds
\* cell of a tile layer, Undo leaves no tile at (x, y) on L, and a Redo right
\* after it leaves exactly one tile there, with index i.
C6_AddTileUndoRedo ==
    /\ (op[1] = "Undo" /\ obs.prevOp[1] = "AddTile"
          /\ PlacedOnEmptyCell(Last(redoStack)))
         => LET p == Last(redoStack).payload
            IN  TilesAt(room, p.layerName, p.x, p.y) = <<>>
    /\ (op[1] = "Redo" /\ obs.prevOp[1] = "Undo"
          /\ PlacedOnEmptyCell(Last(undoStack)))
         => LET p == Last(undoStack).payload
            IN  TilesAt(room, p.layerName, p.x, p.y)
                  = << [x |-> p.x, y |-> p.y, index |-> p.index] >>

----------------------------------------------------------------------------
(* Tiles and layers: properties checked on the whole engine *)

\* C8: AddTile(L, x, y, i) immediately followed by AddTile(L, x, y, j) with
\* j # i, L being a tile layer, leaves exactly one tile at (x, y) on L, with
\* index j; the other tiles of L, the other layers and the rest of the Room
\* are unchanged.
C8_SecondAddTileReplaces ==
    [][(/\ op[1] = "AddTile" /\ op'[1] = "AddTile"
        /\ op'[2] = op[2] /\ op'[3] = op[3] /\ op'[4] = op[4]
        /\ op'[5] # op[5]
        /\ IsTileLayer(room, op[2]))
         => LET li == FindIndex(room.layers, LAMBDA l : l.name = op[2])
            IN  /\ TilesAt(room', op[2], op[3], op[4])
                     = << [x |-> op[3], y |-> op[4], index |-> op'[5]] >>
                /\ TilesElsewhere(room', op[2], op[3], op[4])
                     = TilesElsewhere(room, op[2], op[3], op[4])
                /\ room' = [room EXCEPT !.layers[li].tiles = room'.layers[li].tiles]
      ]_vars

\* Two AddTile in a row on one cell of a tile layer, with different indices.
C8_Witness ==
    /\ op[1] = "AddTile" /\ obs.prevOp[1] = "AddTile"
    /\ op[2] = obs.prevOp[2] /\ op[3] = obs.prevOp[3] /\ op[4] = obs.prevOp[4]
    /\ op[5] # obs.prevOp[5]
    /\ IsTileLayer(room, op[2])
    /\ TilesAt(obs.before, op[2], op[3], op[4])
         = << [x |-> op[3], y |-> op[4], index |-> obs.prevOp[5]] >>

----------------------------------------------------------------------------
(* Paint strokes *)

\* The place tool on the tile layer: presses, the placements of the moves
\* that follow (the addTile calls of placeTile), releases, and the session
\* calls on their own.
NextPaint ==
    \/ steps < MaxPaintSteps /\ \E l \in {"TilesForest", "Objects"} : SelectLayer(l)
    \/ steps < MaxPaintSteps /\ \E x \in CursorXs : MouseDownPlace(x, 5, 3)
    \/ steps < MaxPaintSteps /\ \E x \in {0, 16}, i \in TileIndices :
                                   AddTile("TilesForest", x, 0, i)
    \/ steps < MaxPaintSteps /\ StartPainting
    \/ steps < MaxPaintSteps /\ EndPainting
    \/ Undo
    \/ Redo
    \/ ResetUndoRedoFlag

SpecPaint == Init /\ [][NextPaint]_vars

\* C4: a stroke (session start, n >= 1 AddTile calls, session end), none of
\* its events running during a replay, leaves the undo stack exactly one
\* entry longer than at its start, and an Undo right after it restores the
\* Room that was live when the session started.
C4_StrokeIsOneEntry ==
    /\ (obs.stroke.phase = "ended" /\ obs.stroke.adds >= 1 /\ ~obs.stroke.replay)
         => Len(undoStack) = obs.stroke.undoLen + 1
    /\ (obs.stroke.phase = "undone" /\ obs.stroke.adds >= 1 /\ ~obs.stroke.replay)
         => room = obs.stroke.baseline

----------------------------------------------------------------------------
(* Tile occupancy *)

NextTiles ==
    \/ steps < MaxTileSteps /\ \E xi \in {<<0, 3>>, <<16, 3>>, <<16, 7>>} :
                                  AddTile("TilesForest", xi[1], 0, xi[2])
    \/ steps < MaxTileSteps /\ \E x \in {0, 16} : RemoveTile("TilesForest", x, 0)
    \/ steps < MaxTileSteps /\ \E b \in Brushes : SetTileBrush(b)
    \/ steps < MaxTileSteps /\ \E x \in {0, 16} : ApplyTileBrush("TilesForest", x, 0)
    \/ steps < MaxTileSteps /\ StartPainting
    \/ steps < MaxTileSteps /\ EndPainting
    \/ steps < MaxTileSteps /\ ResizeRoom(16, 600)
    \/ Undo
    \/ Redo
    \/ ResetUndoRedoFlag

SpecTiles == Init /\ [][NextTiles]_vars

\* C7: in every reachable state every layer holds at most one Tile per
\* (x, y) cell.
C7_OneTilePerCell ==
    \A li \in 1..Len(room.layers) :
       \A j, k \in 1..Len(room.layers[li].tiles) :
          (room.layers[li].tiles[j].x = room.layers[li].tiles[k].x
             /\ room.layers[li].tiles[j].y = room.layers[li].tiles[k].y)
            => j = k

\* The brush was stamped over a cell that held a tile of another index, next
\* to a second tile.
C7_Witness ==
    /\ op = <<"ApplyTileBrush", "TilesForest", 16, 0>>
    /\ TilesAt(obs.before, "TilesForest", 16, 0)
         = << [x |-> 16, y |-> 0, index |-> 3] >>
    /\ TilesAt(room, "TilesForest", 16, 0)
         = << [x |-> 16, y |-> 0, index |-> 5] >>
    /\ Len(room.layers[1].tiles) >= 2

----------------------------------------------------------------------------
(* Resizing *)

NextResize ==
    \/ steps < MaxResizeSteps /\ \E x \in {0, 16} : AddTile("TilesForest", x, 0, 3)
    \/ steps < MaxResizeSteps /\ \E x \in {-16, 16} : AddInstance("Objects", x, 0)
    \/ steps < MaxResizeSteps /\ \E ty \in {"tile", "object"} :
                                    UpdateLayerType("TilesForest", ty)
    \/ steps < MaxResizeSteps /\ \E wh \in Sizes : ResizeRoom(wh[1], wh[2])
    \/ steps < MaxResizeSteps /\ SaveRoom
    \/ Undo
    \/ Redo
    \/ ResetUndoRedoFlag

SpecResize == Init /\ [][NextResize]_vars

\* C9: ResizeRoom(w, h) sets the bounds to (w, h) and drops, on every layer
\* whatever its type, each Tile, and each Instance, with x or y < 0 or
\* x >= w or y >= h; everything else in the Room is unchanged.
C9_ResizeDropsEverythingOutOfBounds ==
    [][op'[1] = "ResizeRoom" =>
         room' = [room EXCEPT
            !.width = op'[2],
            !.height = op'[3],
            !.layers = [k \in 1..Len(room.layers) |->
                [room.layers[k] EXCEPT !.tiles =
                    SelectSeq(@, LAMBDA t : InBounds(t, op'[2], op'[3]))]],
            !.instances = SelectSeq(@, LAMBDA i : InBounds(i, op'[2], op'[3]))]
      ]_vars

----------------------------------------------------------------------------
(* Room invariants and rejected placements *)

IsObjectLayer(r, name) ==
    LET li == FindIndex(r.layers, LAMBDA l : l.name = name)
    IN  li # 0 /\ r.layers[li].type = "object"

\* C11: in every reachable state every Instance names a layer that exists in
\* the Room and whose type is object.
C11_InstancesOnObjectLayers ==
    \A k \in 1..Len(room.instances) :
       IsObjectLayer(room, room.instances[k].instance_layer_name)

\* C12: in every reachable state the layers of the Room have pairwise
\* different names.
C12_LayerNamesUnique ==
    \A j, k \in 1..Len(room.layers) :
       room.layers[j].name = room.layers[k].name => j = k

\* C13: AddInstance whose instance_layer_name names no layer, or a layer that
\* is not of type object, leaves the Room, the undo stack and the redo stack
\* unchanged.
C13_AddInstanceRejected ==
    [][(op'[1] = "AddInstance" /\ ~IsObjectLayer(room, op'[2]))
         => /\ room' = room
            /\ undoStack' = undoStack
            /\ redoStack' = redoStack]_vars

\* AddInstance named a layer that had been removed, with history on both
\* sides of it untouched.
C13_Witness ==
    /\ op[1] = "AddInstance"
    /\ ~HasLayer(obs.before, op[2])
    /\ room = obs.before
    /\ obs.undoLen = 1 /\ Len(undoStack) = 1
    /\ redoStack = <<>>

----------------------------------------------------------------------------
(* Rejected commands and recording *)

AllInBounds(r) ==
    /\ \A li \in 1..Len(r.layers) :
          \A k \in 1..Len(r.layers[li].tiles) :
             InBounds(r.layers[li].tiles[k], r.width, r.height)
    /\ \A k \in 1..Len(r.instances) :
          InBounds(r.instances[k], r.width, r.height)

\* C14: AddTile on a cell outside [0,width) x [0,height) and AddInstance at a
\* position outside those bounds leave the Room and both stacks unchanged,
\* and every tile and instance of every reachable Room lies within the
\* Room's bounds.
C14_OutOfBoundsPlacementRejected ==
    [][/\ (/\ op'[1] = "AddTile"
           /\ ~InBounds([x |-> op'[3], y |-> op'[4]], room.width, room.height))
            => (room' = room /\ undoStack' = undoStack /\ redoStack' = redoStack)
       /\ (/\ op'[1] = "AddInstance"
           /\ ~InBounds([x |-> op'[3], y |-> op'[4]], room.width, room.height))
            => (room' = room /\ undoStack' = undoStack /\ redoStack' = redoStack)
       /\ AllInBounds(room')
      ]_vars

\* The commands that take a layer name as their first argument.
TakesLayerName(e) ==
    e[1] \in {"RemoveLayer", "ToggleLayerVisibility", "UpdateLayerType",
              "UpdateLayerTexture", "AddTile", "RemoveTile", "ApplyTileBrush"}

\* C15: a command that takes a layer name leaves the Room, the undo stack
\* and the redo stack unchanged when the Room has no layer of that name.
C15_MissingLayerIsNoOp ==
    [][(TakesLayerName(op') /\ ~HasLayer(room, op'[2]))
         => /\ room' = room
            /\ undoStack' = undoStack
            /\ redoStack' = redoStack]_vars

\* The commands of the closed set (session calls, brush and layer selection
\* and pointer events are not among them).
ClosedSet ==
    {"RenameRoom", "AddInstance", "RemoveInstance", "AddLayer", "RemoveLayer",
     "ToggleLayerVisibility", "UpdateLayerType", "UpdateLayerTexture",
     "RenameLayer", "AddTile", "RemoveTile", "ResizeRoom", "UpdateRoomType",
     "UpdateRoomBiome", "UpdateRoomChance", "ApplyTileBrush"}

\* C17: outside a paint session and outside a replay, a command of the
\* closed set that changes the Room makes the undo stack exactly one entry
\* longer.
C17_RoomChangeRecordsOneEntry ==
    [][(/\ op'[1] \in ClosedSet
        /\ ~isPainting /\ ~isUndoRedoAction
        /\ room' # room)
         => (Len(undoStack') = Len(undoStack) + 1
               /\ ButLast(undoStack') = undoStack)]_vars

----------------------------------------------------------------------------
(* Undo and redo requested at any time *)

\* undo() and redo() called whatever the stacks hold (Ctrl+Z / Ctrl+Y).
UndoPressed == Deliver(<<"Undo">>, undo(St, St), 0)

RedoPressed == Deliver(<<"Redo">>, redo(St, St), 0)

NextPresses ==
    \/ steps < MaxPressSteps /\ RenameRoom("Cave")
    \/ steps < MaxPressSteps /\ \E i \in TileIndices : AddTile("TilesForest", 0, 0, i)
    \/ steps < MaxPressSteps /\ UpdateRoomType("boss")
    \/ UndoPressed
    \/ RedoPressed
    \/ ResetUndoRedoFlag

SpecPresses == Init /\ [][NextPresses]_vars

\* C16: Undo with an empty undo stack and Redo with an empty redo stack leave
\* the Room, both stacks and the replaying flag unchanged.
C16_EmptyStackIsNoOp ==
    [][((op'[1] = "Undo" /\ undoStack = <<>>)
          \/ (op'[1] = "Redo" /\ redoStack = <<>>))
         => /\ room' = room
            /\ undoStack' = undoStack
            /\ redoStack' = redoStack
            /\ isUndoRedoAction' = isUndoRedoAction]_vars

\* A second Undo found the undo stack empty and left the entry on the redo
\* stack, the Room and the flag as they were.
C16_Witness ==
    /\ op[1] = "Undo" /\ obs.prevOp[1] = "Undo"
    /\ obs.undoLen = 0 /\ undoStack = <<>>
    /\ obs.redoLen = 1 /\ Len(redoStack) = 1
    /\ room = obs.before
    /\ ~obs.replay /\ ~isUndoRedoAction

----------------------------------------------------------------------------
(* Paint sessions: empty and nested sessions *)

\* C18: a Paint Session that is started and then ended while its buffer is
\* empty produces no history entry: starting it leaves both stacks as they
\* are, and ending it with an empty buffer leaves both stacks as they are and
\* clears the active flag, the buffer and the baseline.
C18_EmptySessionRecordsNothing ==
    [][/\ op'[1] = "StartPainting" =>
            (undoStack' = undoStack /\ redoStack' = redoStack)
       /\ (op'[1] = "EndPainting" /\ isPainting /\ paintedTiles = <<>>) =>
            /\ undoStack' = undoStack
            /\ redoStack' = redoStack
            /\ ~isPainting'
            /\ paintedTiles' = <<>>
            /\ initialRoomState' = NoRoom
      ]_vars

\* A session was started and ended at once, outside replay, over a history
\* that holds an entry a new record would have discarded.
C18_Witness ==
    /\ op[1] = "EndPainting" /\ obs.prevOp[1] = "StartPainting"
    /\ obs.stroke.phase = "ended" /\ obs.stroke.adds = 0
    /\ Len(undoStack) = obs.stroke.undoLen
    /\ redoStack # <<>> /\ ~isUndoRedoAction
    /\ ~isPainting /\ paintedTiles = <<>> /\ initialRoomState = NoRoom

\* C19: when a session is started while a session with a non-empty buffer is
\* active (no replay in progress), the earlier session is ended first: its
\* buffered edits are pushed as one BATCH_ADD_TILES entry carrying the earlier
\* baseline.
C19_StartEndsTheActiveSession ==
    [][(/\ op'[1] \in {"StartPainting", "MouseDownPlace"}
        /\ isPainting /\ paintedTiles # <<>>
        /\ ~isUndoRedoAction)
         => \E k \in (Len(undoStack) + 1)..Len(undoStack') :
               /\ undoStack'[k].type = "BATCH_ADD_TILES"
               /\ undoStack'[k].payload.batchedTiles = paintedTiles
               /\ undoStack'[k].payload.previousRoom = initialRoomState
      ]_vars

----------------------------------------------------------------------------
(* Brush placement over existing tiles *)

\* The entry records a cell that held a tile before the brush was applied.
CoversExistingTile(action) ==
    /\ action.type = "BATCH_ADD_TILES"
    /\ \E k \in 1..Len(action.payload.batchedTiles) :
          action.payload.batchedTiles[k].index # None

\* C20: a brush placement made outside a session and outside replay over
\* cells that already hold tiles is undone by Undo to the Room before the
\* placement, and a following Redo yields the Room right after the placement.
C20_BrushOverTilesUndoRedo ==
    [][/\ (/\ op[1] = "ApplyTileBrush" /\ obs.script = "commands"
           /\ ~isPainting
           /\ Len(undoStack) = obs.undoLen + 1
           /\ CoversExistingTile(Last(undoStack))
           /\ op'[1] = "Undo")
          => room' = obs.before
       /\ (/\ op[1] = "Undo" /\ obs.prevOp[1] = "ApplyTileBrush"
           /\ obs.script = "undoing"
           /\ ~isPainting
           /\ Len(redoStack) = 1
           /\ CoversExistingTile(Last(redoStack))
           /\ op'[1] = "Redo")
          => room' = obs.before
      ]_vars

----------------------------------------------------------------------------
(* Brushes copied from a selection *)

CopySelectionToBrush(area) ==
    Event(<<"CopySelectionToBrush", area>>, copySelectionToBrush(St, St, area))

\* Selection rectangles: the four cells at the origin, and the first cell.
Areas ==
    { [x |-> 0, y |-> 0, width |-> 32, height |-> 32],
      [x |-> 0, y |-> 0, width |-> 16, height |-> 16] }

NextBrush ==
    \/ steps < MaxBrushSteps /\ \E x, y \in {0, 16} : AddTile("TilesForest", x, y, 3)
    \/ steps < MaxBrushSteps /\ SelectLayer("TilesForest")
    \/ steps < MaxBrushSteps /\ \E a \in Areas : CopySelectionToBrush(a)
    \/ steps < MaxBrushSteps /\ MouseDownPlace(100, 100, 7)

SpecBrush == Init /\ [][NextBrush]_vars

\* A brush of four tiles copied from two by two cells, with its hot spot at
\* the default centre (1,1).
TwoByTwoBrush(b) ==
    /\ b # NullBrush
    /\ b.width = 2 /\ b.height = 2 /\ Len(b.tiles) = 4
    /\ b.offsetX = 1 /\ b.offsetY = 1

\* The step puts every tile of the brush on the selected layer, the brush
\* cell (0,0) at (ox, oy), and leaves the other cells of the layer alone.
BrushLandsAt(ox, oy) ==
    LET cells == { <<ox + tileBrush.tiles[k].x * customTileSize,
                     oy + tileBrush.tiles[k].y * customTileSize>> :
                       k \in 1..Len(tileBrush.tiles) }
        li == FindIndex(room.layers, LAMBDA l : l.name = selectedLayer)
    IN  /\ \A k \in 1..Len(tileBrush.tiles) :
              LET t == tileBrush.tiles[k]
                  x == ox + t.x * customTileSize
                  y == oy + t.y * customTileSize
              IN  TilesAt(room', selectedLayer, x, y)
                      = << [x |-> x, y |-> y, index |-> t.index] >>
        /\ SelectSeq(room'.layers[li].tiles, LAMBDA t : <<t.x, t.y>> \notin cells)
              = SelectSeq(room.layers[li].tiles, LAMBDA t : <<t.x, t.y>> \notin cells)

PressWithTwoByTwoBrush ==
    /\ op'[1] = "MouseDownPlace" /\ op'[2] = 100 /\ op'[3] = 100
    /\ IsTileLayer(room, selectedLayer)
    /\ TwoByTwoBrush(tileBrush)

\* C21 as stated: a brush copied from a 2x2 selection of 4 tiles (hot spot
\* (1,1)) and applied at cursor (100,100) with tile size 16 places its tiles
\* with top-left cell (100-16, 100-16) = (84,84).
C21_BrushTopLeftAtCursorMinusOffset ==
    [][PressWithTwoByTwoBrush => BrushLandsAt(84, 84)]_vars

\* C21 as amended: the cursor is first snapped down to its cell, (96,96), so
\* the top-left cell of the placed tiles is (96-16, 96-16) = (80,80).
C21_BrushTopLeftAtCellMinusOffset ==
    [][PressWithTwoByTwoBrush => BrushLandsAt(80, 80)]_vars

\* The four tiles of a copied 2x2 brush lie at (80,80)..(96,96) after a
\* press at (100,100).
C21_Witness ==
    /\ op[1] = "MouseDownPlace" /\ op[2] = 100 /\ op[3] = 100
    /\ TwoByTwoBrush(tileBrush)
    /\ obs.prevOp[1] = "CopySelectionToBrush"
    /\ \A x, y \in {80, 96} : TilesAt(room, "TilesForest", x, y) # <<>>
    /\ TilesAt(obs.before, "TilesForest", 80, 80) = <<>>

----------------------------------------------------------------------------
(* Tabs *)

\* The clock behind `tab-${Date.now()}`: it has advanced between any two
\* events of the user.
Now == steps + 2

OpenRoom(name) ==
    Event(<<"OpenRoom", name>>, addTab(St, St, HeaderNewRoom(name), Now))

\* The tab bar offers the tabs of the list.
SwitchToTab(k) ==
    /\ k \in 1..Len(tabs)
    /\ Event(<<"SwitchToTab", tabs[k].id>>, switchToTab(St, St, tabs[k].id))

CloseTab(k) ==
    /\ k \in 1..Len(tabs)
    /\ Event(<<"CloseTab", tabs[k].id>>, closeTab(St, St, tabs[k].id))

NextTabs ==
    \/ steps < MaxTabSteps /\ \E n \in RoomNames : RenameRoom(n)
    \/ steps < MaxTabSteps /\ AddTile("TilesForest", 0, 0, 3)
    \/ steps < MaxTabSteps /\ \E n \in RoomNames : OpenRoom(n)
    \/ steps < MaxTabSteps /\ \E k \in 1..3 : SwitchToTab(k)
    \/ steps < MaxTabSteps /\ \E k \in 1..3 : CloseTab(k)
    \/ steps < MaxTabSteps /\ StartPainting
    \/ steps < MaxTabSteps /\ EndPainting
    \/ Undo
    \/ Redo
    \/ ResetUndoRedoFlag

SpecTabs == Init /\ [][NextTabs]_vars

\* Tabs without paint sessions: edits, undo and redo in several tabs.
NextSwitch ==
    \/ steps < MaxSwitchSteps /\ RenameRoom("Cave")
    \/ steps < MaxSwitchSteps /\ AddTile("TilesForest", 0, 0, 3)
    \/ steps < MaxSwitchSteps /\ \E n \in RoomNames : OpenRoom(n)
    \/ steps < MaxSwitchSteps /\ \E k \in 1..3 : SwitchToTab(k)
    \/ steps < MaxSwitchSteps /\ \E k \in 1..3 : CloseTab(k)
    \/ Undo
    \/ Redo
    \/ ResetUndoRedoFlag

SpecSwitch == Init /\ [][NextSwitch]_vars

\* The Room each tab holds: the live Room for the active tab, the Room of
\* its slot for the others.
HeldRoom(k) ==
    IF tabs[k].id = activeTabId THEN room ELSE tabs[k].room

\* No two tabs of list tbs hold Rooms of the same name, r being the live
\* Room of the active tab act.
NamesDistinct(tbs, act, r) ==
    \A j, k \in 1..Len(tbs) :
        LET held(i) == IF tbs[i].id = act THEN r ELSE tbs[i].room
        IN  held(j).name = held(k).name => j = k

\* C22: open(room) while some tab (the active one with its live Room
\* included) holds a Room of that name adds no tab and makes that tab the
\* active one; no two tabs ever hold Rooms with the same name.
C22_OpenSwitchesToTheTabOfThatName ==
    [][/\ (/\ op'[1] = "OpenRoom"
           /\ \E k \in 1..Len(tabs) : HeldRoom(k).name = op'[2])
          => /\ Len(tabs') = Len(tabs)
             /\ \E k \in 1..Len(tabs) :
                   HeldRoom(k).name = op'[2] /\ activeTabId' = tabs[k].id
       /\ (op'[1] = "OpenRoom" /\ NamesDistinct(tabs, activeTabId, room))
          => NamesDistinct(tabs', activeTabId', room')
      ]_vars


\* The slot of tab id in list tbs, as the triple the claim speaks of.
Slot(tbs, id) ==
    LET k == FindIndex(tbs, LAMBDA tab : tab.id = id)
    IN  [room |-> tbs[k].room, undoStack |-> tbs[k].undoStack,
         redoStack |-> tbs[k].redoStack]

Live == [room |-> room, undoStack |-> undoStack, redoStack |-> redoStack]

\* C23: switch(id) stores the live Room, undo stack and redo stack into the
\* slot of the tab that is left and loads the target's stored values as
\* live; and nothing done while another tab is active (edits, undos, redos,
\* further switches) changes the slot of a tab that is not active.  Hence leaving A for B and coming back gives A's Room and
\* stacks exactly as they were left.
C23_SwitchStoresAndLoads ==
    [][/\ (op'[1] = "SwitchToTab" /\ op'[2] # activeTabId)
          => /\ Slot(tabs', activeTabId) = Live
             /\ Live' = Slot(tabs, op'[2])
             /\ activeTabId' = op'[2]
       /\ op'[1] \in {"RenameRoom", "AddTile", "Undo", "Redo",
                      "ResetUndoRedoFlag", "SwitchToTab"}
          => /\ Len(tabs') = Len(tabs)
             /\ \A k \in 1..Len(tabs) :
                   tabs[k].id # activeTabId => tabs'[k] = tabs[k]
      ]_vars

\* Back in the first tab after an edit there, a new tab and an edit in it.
C23_Witness ==
    /\ op = <<"SwitchToTab", 1>> /\ activeTabId = 1
    /\ Len(tabs) = 2
    /\ undoStack # <<>>
    /\ tabs[2].undoStack # <<>>
    /\ Live = Slot(tabs, 1)
    /\ room # tabs[2].room


\* C24: the histories of two tabs do not interact.  An entry that the end of
\* a paint session records while a tab is active comes from a session that
\* was started in that tab, so it never carries the Room another tab had as
\* its baseline; and Undo never sets the live Room to the baseline of a
\* session that was started in another tab.
C24_HistoriesOfTabsDoNotInteract ==
    [][/\ (op'[1] = "EndPainting" /\ Len(undoStack') = Len(undoStack) + 1)
          => obs.session.tab = activeTabId
       /\ (/\ op'[1] = "Undo"
           /\ obs.session.tab \notin {0, activeTabId}
           /\ room # obs.session.baseline)
          => room' # obs.session.baseline
      ]_vars


TabIds(tbs) == { tbs[k].id : k \in 1..Len(tbs) }

\* C25: close(id) changes nothing when one tab remains, so the tab list is
\* never empty; closing the active tab removes it and makes a neighbour of
\* it in the list the active tab; and after every open, switch and close
\* the active tab id is the id of a tab of the list.
C25_CloseKeepsAnActiveTab ==
    [][/\ (op'[1] = "CloseTab" /\ Len(tabs) = 1)
          => /\ tabs' = tabs /\ activeTabId' = activeTabId /\ Live' = Live
       /\ Len(tabs') >= 1
       /\ (op'[1] = "CloseTab" /\ Len(tabs) > 1 /\ op'[2] = activeTabId)
          => LET ti == FindIndex(tabs, LAMBDA tab : tab.id = activeTabId)
             IN  /\ \E k \in {ti - 1, ti + 1} \cap (1..Len(tabs)) :
                       activeTabId' = tabs[k].id
                 /\ op'[2] \notin TabIds(tabs')
                 /\ Len(tabs') = Len(tabs) - 1
       /\ activeTabId' \in TabIds(tabs')
      ]_vars

\* The active second tab was closed, then closing the last tab did nothing.
C25_Witness ==
    /\ op = <<"CloseTab", 1>> /\ obs.prevOp[1] = "CloseTab" /\ obs.prevOp[2] # 1
    /\ Len(tabs) = 1 /\ activeTabId = 1
    /\ room = obs.before

----------------------------------------------------------------------------
(* Importing a brush library *)

ImportedBrush(id) ==
    [type |-> "object", id |-> Str(id), name |-> Str("stamp"),
     tiles |-> Arr(<< [x |-> 0, y |-> 0, index |-> 5] >>),
     width |-> Num(1), height |-> Num(1), texture |-> Str("tileset_forest"),
     offsetX |-> Num(0), offsetY |-> Num(0)]

\* Items of an imported array: two well-formed brushes, a brush whose width
\* is a string, a brush without tiles, and null.
Items ==
    { ImportedBrush("a"), ImportedBrush("b"),
      [ImportedBrush("c") EXCEPT !.width = Str("1")],
      [ImportedBrush("d") EXCEPT !.tiles = Absent],
      [type |-> "null", id |-> Absent, name |-> Absent, tiles |-> Absent,
       width |-> Absent, height |-> Absent, texture |-> Absent,
       offsetX |-> Absent, offsetY |-> Absent] }

ImportData ==
    {ParseError, NotAnArray}
      \cup { ArrayOf(items) : items \in UNION { [1..n -> Items] : n \in 0..MaxEntries } }

\* The file the user hands to the import dialog is drawn at the start.
InitImport ==
    /\ Mounted /\ Unobserved
    /\ \E data \in ImportData : op = <<"ImportPending", data>>

\* The import of the pending file.
ImportBrushLibrary ==
    /\ op[1] = "ImportPending"
    /\ LET done == importBrushLibrary(St, St, op[2])
       IN  Event(<<"ImportBrushLibrary", op[2], done.result>>, done.state)

\* A brush is made the active one while the file is pending.
ChooseTileBrush(brush) ==
    /\ op[1] = "ImportPending"
    /\ tileBrush # brush
    /\ Deliver(op, [St EXCEPT !.tileBrush = brush], 0)

NextImport ==
    \/ ImportBrushLibrary
    \/ \E b \in Brushes : ChooseTileBrush(b)

SpecImport == InitImport /\ [][NextImport]_vars

\* A well-formed entry: an object with a string id, a string name, an array
\* tiles, a numeric width and height and a string texture.
IsWellFormed(e) ==
    /\ e.type = "object"
    /\ <<e.id.type, e.name.type, e.tiles.type, e.width.type, e.height.type,
         e.texture.type>>
          = <<"string", "string", "array", "number", "number", "string">>

\* The well-formed entries of an array, in input order.
WellFormed(items) == SelectSeq(items, IsWellFormed)

\* C26: importing an array in which some but not all entries are well-formed
\* returns success and makes the library exactly the well-formed entries in
\* their input order.
C26_PartlyValidImportKeepsValidEntries ==
    [][(/\ op'[1] = "ImportBrushLibrary"
        /\ op'[2].parsed /\ op'[2].array
        /\ WellFormed(op'[2].items) # <<>>
        /\ WellFormed(op'[2].items) # op'[2].items)
         => /\ op'[3] = TRUE
            /\ savedBrushes' = WellFormed(op'[2].items)
      ]_vars

\* Two of three entries were well-formed, the malformed one in the middle.
C26_Witness ==
    /\ op[1] = "ImportBrushLibrary" /\ op[3] = TRUE
    /\ op[2].parsed /\ op[2].array /\ Len(op[2].items) = 3
    /\ ~IsWellFormed(op[2].items[2])
    /\ savedBrushes = << ImportedBrush("b"), ImportedBrush("a") >>

\* C27: importing data that cannot be parsed, is not an array or has no
\* well-formed entry returns failure and leaves the library and the active
\* brush unchanged.
C27_FailedImportChangesNothing ==
    [][(/\ op'[1] = "ImportBrushLibrary"
        /\ \/ ~op'[2].parsed
           \/ ~op'[2].array
           \/ WellFormed(op'[2].items) = <<>>)
         => /\ op'[3] = FALSE
            /\ savedBrushes' = savedBrushes
            /\ tileBrush' = tileBrush
      ]_vars

\* An array of malformed entries only was refused while the library held
\* the example brush and a brush was active.
C27_Witness ==
    /\ op[1] = "ImportBrushLibrary" /\ op[3] = FALSE
    /\ op[2].parsed /\ op[2].array /\ Len(op[2].items) = 2
    /\ savedBrushes = << exampleBrush >>
    /\ tileBrush # NullBrush

----------------------------------------------------------------------------
(* Room name and index *)

\* C28: in every state reached by commands, Undo and Redo the index of the
\* Room is "@ref room(" + name + ")" for its current name, and so is the
\* index of every Room snapshot kept on the two stacks.
C28_IndexFollowsName ==
    /\ room.index = RefIndex(room.name)
    /\ \A k \in 1..Len(undoStack) :
          HasPreviousRoom(undoStack[k]) =>
             undoStack[k].payload.previousRoom.index
                = RefIndex(undoStack[k].payload.previousRoom.name)
    /\ \A k \in 1..Len(redoStack) :
          HasPreviousRoom(redoStack[k]) =>
             redoStack[k].payload.previousRoom.index
                = RefIndex(redoStack[k].payload.previousRoom.name)

\* A RenameRoom was undone and then redone.
C28_Witness ==
    /\ op[1] = "Redo" /\ obs.prevOp[1] = "Undo"
    /\ undoStack # <<>> /\ Last(undoStack).type = "RENAME_ROOM"
    /\ Last(undoStack).payload.name = "Cave"
    /\ redoStack = <<>>

----------------------------------------------------------------------------
(* Renaming layers *)

NextLayers ==
    \/ steps < MaxLayerSteps /\ AddLayer("Extra", "object")
    \/ steps < MaxLayerSteps /\ \E l \in {"Objects", "Extra"} : AddInstance(l, 16, 0)
    \/ steps < MaxLayerSteps /\ \E old \in {"Objects", "Extra"}, new \in {"Things", "Extra"} :
                                   RenameLayer(old, new)
    \/ Undo
    \/ Redo
    \/ ResetUndoRedoFlag

SpecLayers == Init /\ [][NextLayers]_vars

\* C29: RenameLayer(old, new) gives the layer named old the name new and, in
\* the same step, sets instance_layer_name to new on every instance that
\* referenced old; the other layers, the other instances, the number and
\* order of layers and instances and the rest of the Room are unchanged.
C29_RenameLayerRetargetsInstances ==
    [][(/\ op'[1] = "RenameLayer"
        /\ HasLayer(room, op'[2])
        /\ op'[3] # op'[2])
         => /\ Len(room'.layers) = Len(room.layers)
            /\ \A k \in 1..Len(room.layers) :
                  room'.layers[k] =
                     IF room.layers[k].name = op'[2]
                     THEN [room.layers[k] EXCEPT !.name = op'[3]]
                     ELSE room.layers[k]
            /\ Len(room'.instances) = Len(room.instances)
            /\ \A k \in 1..Len(room.instances) :
                  room'.instances[k] =
                     IF room.instances[k].instance_layer_name = op'[2]
                     THEN [room.instances[k] EXCEPT
                             !.instance_layer_name = op'[3]]
                     ELSE room.instances[k]
            /\ [room' EXCEPT !.layers = <<>>, !.instances = <<>>]
                 = [room EXCEPT !.layers = <<>>, !.instances = <<>>]
      ]_vars

\* "Objects" was renamed to "Things" with one instance on it and one on
\* another layer.
C29_Witness ==
    /\ op = <<"RenameLayer", "Objects", "Things">>
    /\ \E j, k \in 1..Len(room.instances) :
          /\ room.instances[j].instance_layer_name = "Things"
          /\ obs.before.instances[j].instance_layer_name = "Objects"
          /\ room.instances[k].instance_layer_name = "Extra"
    /\ HasLayer(room, "Things") /\ ~HasLayer(room, "Objects")

----------------------------------------------------------------------------
(* Persistence *)

\* C30: a mutation command has no persistence side effect: no step other
\* than an explicit save changes a document stored under "room_" + name.
C30_CommandsDoNotPersist ==
    [][op'[1] # "SaveRoom" => storage' = storage]_vars

----------------------------------------------------------------------------
(* Removing a tile *)

\* The last event removed a tile from cell (op[3], op[4]) of tile layer op[2],
\* outside a paint session, and recorded it.
RemovedATile ==
    /\ op[1] = "RemoveTile"
    /\ ~isPainting
    /\ IsTileLayer(obs.before, op[2])
    /\ TilesAt(obs.before, op[2], op[3], op[4]) # <<>>
    /\ Len(undoStack) = obs.undoLen + 1

\* C31: the entry RemoveTile records outside a paint session carries the
\* Room as it was before the removal, and a single Undo right after it gives
\* a Room in which the layer again has the removed tile, with its index, at
\* that cell.
C31_RemoveTileRecordsPriorRoom ==
    [][/\ RemovedATile
          => Last(undoStack).payload.previousRoom = obs.before
       /\ (RemovedATile /\ op'[1] = "Undo")
          => TilesAt(room', op[2], op[3], op[4])
                = TilesAt(obs.before, op[2], op[3], op[4])
      ]_vars

----------------------------------------------------------------------------
(* Edits of a paint session that change nothing *)

\* C36: during a paint session a RemoveTile or brush placement that leaves
\* the Room as it was appends nothing to the buffer of the session, and the
\* end of the session records an entry only when the live Room differs from
\* the baseline of the session.
C36_IdleEditsAreNotBuffered ==
    [][/\ (isPainting /\ op'[1] \in {"RemoveTile", "ApplyTileBrush"}
             /\ room' = room)
          => paintedTiles' = paintedTiles
       /\ (op'[1] = "EndPainting" /\ Len(undoStack') = Len(undoStack) + 1)
          => room # initialRoomState
      ]_vars

----------------------------------------------------------------------------
(* The replaying flag and the commands that follow an Undo or a Redo *)

\* The timer armed by undo and redo does fire: the reset of the flag is not
\* postponed for ever.
SpecPressesFair == SpecPresses /\ WF_vars(ResetUndoRedoFlag)

FlagIsEventuallyLowered == isUndoRedoAction ~> ~isUndoRedoAction

\* C35: a command that changes the Room and is issued after an Undo or a Redo
\* has returned is recorded, whether the deferred reset of the replaying flag
\* ran before it or not: it pushes one entry and empties the redo stack.
C35_CommandAfterReplayIsRecorded ==
    [][(/\ "Undo" \in {op[1], obs.prevOp[1]} \/ "Redo" \in {op[1], obs.prevOp[1]}
        /\ op'[1] \in {"RenameRoom", "AddTile", "UpdateRoomType"}
        /\ room' # room)
       => /\ Len(undoStack') = Len(undoStack) + 1
          /\ redoStack' = <<>>
      ]_vars

----------------------------------------------------------------------------
(* Strokes: what a paint session commits, and what replaying it gives *)

MaxStrokeSteps == 4

NextStroke ==
    \/ steps < MaxStrokeSteps /\ \E b \in Brushes : SetTileBrush(b)
    \/ steps < MaxStrokeSteps /\ StartPainting
    \/ steps < MaxStrokeSteps /\ \E i \in TileIndices : AddTile("TilesForest", 0, 0, i)
    \/ steps < MaxStrokeSteps /\ RemoveTile("TilesForest", 0, 0)
    \/ steps < MaxStrokeSteps /\ ApplyTileBrush("TilesForest", 0, 0)
    \/ steps < MaxStrokeSteps /\ EndPainting
    \/ Undo
    \/ Redo
    \/ ResetUndoRedoFlag

SpecStroke == Init /\ [][NextStroke]_vars

\* C32: the batch a paint session commits at its end is the buffer of the
\* session, and replaying its entries in order on the baseline of the
\* session, the way Redo does once the stroke has been undone, gives the Room
\* that was live when the session ended.
C32_ReplayOfBatchGivesLiveRoom ==
    [][(op'[1] = "EndPainting" /\ Len(undoStack') = Len(undoStack) + 1)
       => LET entry == Last(undoStack')
          IN  /\ entry.type = "BATCH_ADD_TILES"
              /\ entry.payload.batchedTiles = paintedTiles
              /\ entry.payload.previousRoom = initialRoomState
              /\ RedoRoom(entry.payload.previousRoom, entry) = room'
      ]_vars

----------------------------------------------------------------------------
(* Brush placement under the tile sizes the tileset panel offers *)

MaxSizeSteps == 4

\* Two of the sizes the Size field of the tileset panel accepts (8 to 64).
TileSizes == {16, 32}

\* Canvas.handleTileSizeChange
SetCustomTileSize(newSize) ==
    /\ customTileSize # newSize
    /\ Event(<<"SetCustomTileSize", newSize>>, [St EXCEPT !.customTileSize = newSize])

NextSizes ==
    \/ steps < MaxSizeSteps /\ \E n \in TileSizes : SetCustomTileSize(n)
    \/ steps < MaxSizeSteps /\ SelectLayer("TilesForest")
    \/ steps < MaxSizeSteps /\ \E b \in Brushes : SetTileBrush(b)
    \/ steps < MaxSizeSteps /\ \E x \in {0, 16} : AddTile("TilesForest", x, 0, 3)
    \/ steps < MaxSizeSteps /\ \E x \in {5, 40} : MouseDownPlace(x, 5, 3)

SpecSizes == Init /\ [][NextSizes]_vars

\* The step writes, on the selected layer, every tile of the brush whose cell
\* (ox, oy) + relative * tile size lies inside the Room, and changes no other
\* cell of the layer, no other layer and no instance.
BrushPlacedAt(ox, oy) ==
    LET Cell(t) == <<ox + t.x * customTileSize, oy + t.y * customTileSize>>
        inside == { k \in 1..Len(tileBrush.tiles) :
                      LET cell == Cell(tileBrush.tiles[k])
                      IN  /\ cell[1] >= 0 /\ cell[1] < room.width
                          /\ cell[2] >= 0 /\ cell[2] < room.height }
        cells == { Cell(tileBrush.tiles[k]) : k \in inside }
        li == FindIndex(room.layers, LAMBDA l : l.name = selectedLayer)
    IN  /\ \A k \in inside :
              LET cell == Cell(tileBrush.tiles[k])
              IN  TilesAt(room', selectedLayer, cell[1], cell[2])
                     = << [x |-> cell[1], y |-> cell[2],
                           index |-> tileBrush.tiles[k].index] >>
        /\ Len(room'.layers) = Len(room.layers)
        /\ SelectSeq(room'.layers[li].tiles, LAMBDA t : <<t.x, t.y>> \notin cells)
              = SelectSeq(room.layers[li].tiles, LAMBDA t : <<t.x, t.y>> \notin cells)
        /\ \A j \in 1..Len(room.layers) : j # li => room'.layers[j] = room.layers[j]
        /\ room'.instances = room.instances

\* C33: whatever the active tile size s, the cursor, the brush and the Room,
\* a brush placement writes on the target tile layer exactly the brush tiles,
\* each at cell anchor + relative * s with anchor = (cursor snapped down to a
\* multiple of s) - (offsetX * s, offsetY * s), drops the brush tiles that
\* fall outside the Room, and leaves every other cell, layer and instance
\* unchanged.
C33_BrushPlacementFollowsTileSize ==
    [][(/\ op'[1] = "MouseDownPlace"
        /\ selectedLayer # "null"
        /\ IsTileLayer(room, selectedLayer)
        /\ tileBrush # NullBrush)
       => BrushPlacedAt(Snap(op'[2]) - tileBrush.offsetX * customTileSize,
                        Snap(op'[3]) - tileBrush.offsetY * customTileSize)
      ]_vars

----------------------------------------------------------------------------
(* The three ways of deriving a brush *)

MaxDeriveSteps == 4

CutSelection(area) ==
    Event(<<"CutSelection", area>>, handleKeyDownCut(St, St, area))

\* The tiles of the selected layer inside the rectangle, as a caller of
\* copyTilesToBrush collects them.
Collected(r, layerName, area) ==
    LET li == FindIndex(r.layers, LAMBDA l : l.name = layerName)
    IN  IF li = 0 THEN <<>>
        ELSE IF r.layers[li].type # "tile" THEN <<>>
        ELSE LET hit == SelectSeq(r.layers[li].tiles, LAMBDA t : InSelection(t, area))
             IN  [k \in 1..Len(hit) |->
                     [x |-> hit[k].x, y |-> hit[k].y, index |-> hit[k].index]]

CopyTilesToBrush(area) ==
    LET tiles == Collected(room, selectedLayer, area)
    IN  Event(<<"CopyTilesToBrush", area>>,
              copyTilesToBrush(St, St, tiles, CeilTiles(area.width),
                               CeilTiles(area.height), "tileset_forest",
                               CeilTiles(area.width) \div 2,
                               CeilTiles(area.height) \div 2))

NextDerive ==
    \/ steps < MaxDeriveSteps /\ \E x, y \in {0, 16} : AddTile("TilesForest", x, y, 3)
    \/ steps < MaxDeriveSteps /\ SelectLayer("TilesForest")
    \/ steps < MaxDeriveSteps /\ \E a \in Areas : CopySelectionToBrush(a)
    \/ steps < MaxDeriveSteps /\ \E a \in Areas : CutSelection(a)
    \/ steps < MaxDeriveSteps /\ \E a \in Areas : CopyTilesToBrush(a)

SpecDerive == Init /\ [][NextDerive]_vars

\* The collected tiles in grid cells, counted from their smallest x and y.
RelativeToMin(tiles) ==
    LET minX == Min({tiles[k].x : k \in 1..Len(tiles)})
        minY == Min({tiles[k].y : k \in 1..Len(tiles)})
    IN  [k \in 1..Len(tiles) |->
            [x |-> (tiles[k].x - minX) \div customTileSize,
             y |-> (tiles[k].y - minY) \div customTileSize,
             index |-> tiles[k].index]]

\* C34: copying a selection, cutting a selection and copyTilesToBrush all
\* store the collected tiles in grid cells relative to the smallest x and y
\* among them, so that the smallest relative x and y are both 0, and put the
\* hot spot at (floor(width/2), floor(height/2)); copying and cutting the same
\* selection give the same brush.
C34_DerivedBrushIsRelativeToMin ==
    [][(/\ op'[1] \in {"CopySelectionToBrush", "CutSelection", "CopyTilesToBrush"}
        /\ Collected(room, selectedLayer, op'[2]) # <<>>
        /\ tileBrush' # tileBrush)
       => /\ tileBrush'.tiles
                = RelativeToMin(Collected(room, selectedLayer, op'[2]))
          /\ Min({tileBrush'.tiles[k].x : k \in 1..Len(tileBrush'.tiles)}) = 0
          /\ Min({tileBrush'.tiles[k].y : k \in 1..Len(tileBrush'.tiles)}) = 0
          /\ tileBrush'.offsetX = tileBrush'.width \div 2
          /\ tileBrush'.offsetY = tileBrush'.height \div 2
          /\ op'[1] = "CutSelection"
                => tileBrush' = copySelectionToBrush(St, St, op'[2]).tileBrush
      ]_vars

----------------------------------------------------------------------------
(* The room properties dialog *)

\* Header.applyRoomPropertiesChange with the fields of the dialog in edit
\* (chance NoChance: the field is empty; the name carries no blanks to trim).
\* Every command it calls was created by the render that showed the dialog
\* and closes over the Room of that render, c.room.
applyRoomPropertiesChange(c, s, edit) ==
    IF edit.width < 100 \/ edit.height < 100 THEN s
    ELSE IF edit.chance # NoChance /\ (edit.chance < 0 \/ edit.chance > 100) THEN s
    ELSE
      LET s1 == updateRoomSize(c, s, edit.width, edit.height)
          s2 == IF edit.name # "" /\ edit.name # c.room.name
                THEN setRoomName(c, s1, edit.name) ELSE s1
          s3 == IF edit.type # c.room.type
                THEN updateRoomType(c, s2, edit.type) ELSE s2
          s4 == IF edit.biome # c.room.biome
                THEN updateRoomBiome(c, s3, edit.biome) ELSE s3
          s5 == IF edit.chance # c.room.chance
                THEN updateRoomChance(c, s4, edit.chance) ELSE s4
      IN  saveRoom(c, s5)

MaxPropertySteps == 2

\* What the dialog can be filled with.
Edits ==
    [ name : RoomNames, width : {800, 400, 50}, height : {600},
      type : {Undefined, "boss"}, biome : {Undefined, "forest"},
      chance : {100} ]

ApplyRoomProperties(edit) ==
    Event(<<"ApplyRoomProperties", edit>>, applyRoomPropertiesChange(St, St, edit))

NextProperties ==
    \/ steps < MaxPropertySteps /\ \E e \in Edits : ApplyRoomProperties(e)
    \/ steps < MaxPropertySteps /\ \E x \in {0, 416} : AddTile("TilesForest", x, 0, 3)
    \/ Undo
    \/ Redo
    \/ ResetUndoRedoFlag

SpecProperties == Init /\ [][NextProperties]_vars

\* The step applies the dialog with valid fields, new dimensions and at
\* least one other new field.
AppliesSizeAndFields ==
    /\ op'[1] = "ApplyRoomProperties"
    /\ op'[2].width >= 100 /\ op'[2].height >= 100
    /\ <<op'[2].width, op'[2].height>> # <<room.width, room.height>>
    /\ <<op'[2].name, op'[2].type, op'[2].biome>> # <<room.name, room.type, room.biome>>

\* C37: applying a change of the room properties that alters the dimensions
\* together with the name, type or biome records the resize and then one
\* entry per changed field, and the live Room afterwards carries every new
\* value: no field command puts back the dimensions of the Room before the
\* event.
C37_PropertiesChangeKeepsEveryValue ==
    [][AppliesSizeAndFields
       => /\ room'.width = op'[2].width
          /\ room'.height = op'[2].height
          /\ room'.name = op'[2].name
          /\ room'.type = op'[2].type
          /\ room'.biome = op'[2].biome
          /\ room' = [ResizedRoom(room, op'[2].width, op'[2].height)
                        EXCEPT !.name = op'[2].name,
                               !.index = RefIndex(op'[2].name),
                               !.type = op'[2].type,
                               !.biome = op'[2].biome]
          /\ ~isUndoRedoAction => undoStack'[Len(undoStack) + 1].type = "UPDATE_ROOM_SIZE"
      ]_vars

============================================================================
